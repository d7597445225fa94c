----------------------- MODULE DeviceRegistry_proofs ------------------------
(***************************************************************************)
(* Theorems about DeviceRegistry, for every set of machines, addresses,    *)
(* rows and goroutines, and, in the last part, about BackendClient, the    *)
(* other end of its TCP connections, whose names differ for that reason.   *)
(***************************************************************************)
EXTENDS DeviceRegistry, BackendClient, TLAPS

-----------------------------------------------------------------------------
(* Lemmas about the operators the handlers are built from.                 *)

\* Saving or creating a row keeps the table a table.
LEMMA SavedType ==
    ASSUME NEW table \in Tables, NEW r \in Rows, NEW d \in Device
    PROVE  Saved(table, r, d) \in Tables /\ Created(table, r, d) \in Tables
BY DEF Saved, Created, Tables

\* Saving or creating a row keeps device_ids distinct.
LEMMA SavedUnique ==
    ASSUME NEW table \in Tables, NEW r \in Rows, NEW d \in Device, Unique(table)
    PROVE  Unique(Saved(table, r, d)) /\ Unique(Created(table, r, d))
BY DEF Saved, Created, Clash, Unique, Tables

\* Growing older keeps a row a row, and changes only its age.
LEMMA OlderDevice ==
    ASSUME NEW d \in Device
    PROVE  /\ Older(d) \in Device
           /\ Older(d).ip = d.ip /\ Older(d).deviceId = d.deviceId
           /\ Older(d).pw = d.pw /\ Older(d).name = d.name
           /\ Older(d) # NoRow
<1>1. d # NoRow
  BY NullAssumption
<1>2. Older(d) = [d EXCEPT !.age = IF @ > Timeout THEN @ ELSE @ + 1]
  BY <1>1 DEF Older
<1>3. (IF d.age > Timeout THEN d.age ELSE d.age + 1) \in 0 .. Timeout + 1
  BY TimeoutAssumption DEF Device
<1>4. Older(d) \in Device
  BY <1>2, <1>3 DEF Device
<1> QED
  BY <1>2, <1>4, NullAssumption DEF Device

LEMMA OlderNone == Older(NoRow) = NoRow
BY DEF Older

\* The edits of the handlers make devices of devices.
LEMMA EditsType ==
    ASSUME NEW k \in Conn, k.host \in Hosts, NEW d \in Device
    PROVE  /\ k.ip \in Ips => KeepaliveEdit(k, d) \in Device
           /\ ReinstallEdit(k, d) \in Device
           /\ k.ip \in Ips => MovedEdit(k, d) \in Device
           /\ k.form # "bare" => Announced(k, d) \in Device
<1>1. SentId(k) \in Hosts \cup {NoId} /\ SentPw(k) \in Hosts \cup {NoPw}
  BY DEF SentId, SentPw
<1>2. HostName[k.host] \in Names /\ 0 \in 0 .. Timeout + 1
  BY TimeoutAssumption, HostAssumption
<1>3. k.ip \in Ips \cup {NoIp}
  BY DEF Conn
<1>4. "Online" \in Status
  BY DEF Status
<1>5. k.ip \in Ips => KeepaliveEdit(k, d) \in Device
  BY <1>1, <1>2, <1>4 DEF KeepaliveEdit, Device
<1>6. ReinstallEdit(k, d) \in Device
  BY <1>1 DEF ReinstallEdit, Device
<1>7. MovedEdit(k, d) \in Device
  BY <1>1, <1>2, <1>3 DEF MovedEdit, Device
<1>8. Announced(k, d) \in Device
  BY <1>1, <1>2, <1>3, <1>4 DEF Announced, Device
<1> QED
  BY <1>5, <1>6, <1>7, <1>8

\* So do the rows the handlers create.
LEMMA NewDeviceType ==
    ASSUME NEW k \in Conn, k.host \in Hosts, NEW pw \in Hosts \cup {NoPw},
           NEW status \in Status
    PROVE  NewDevice(k, pw, status) \in Device
<1>1. SentId(k) \in Hosts \cup {NoId}
  BY DEF SentId
<1>2. HostName[k.host] \in Names /\ 0 \in 0 .. Timeout + 1
  BY TimeoutAssumption, HostAssumption
<1> QED
  BY <1>1, <1>2 DEF NewDevice, Device, Conn

-----------------------------------------------------------------------------
(* Type correctness.  Where a handler stands says what its locals hold.    *)

ConnsType == conns \in [Conns -> Conn]

\* A goroutine about to write has a row and a copy; one that serves a machine
\* knows it and its address.
Locals(c) ==
    LET k == conns[c] IN
    /\ k.host = Peer[c]
    /\ k.at \in {"save", "columns", "delete"} => k.row \in Rows /\ k.copy \in Device
    /\ k.at \in {"byId", "byIp", "byName", "save", "create"} => k.host \in Hosts
    /\ k.op = "announce" => k.host \in Hosts /\ k.form = "full"
    /\ (k.at # "idle" /\ k.op \in {"keepalive", "register", "pin"} /\ k.at # "done")
            => k.ip \in Ips

TypeInv == TypeOK /\ \A c \in Conns : Locals(c)

LEMMA IdleType == \A c \in Conns : Idle(c) \in Conn
BY HostAssumption DEF Idle, Conn, Steps, Ops, Answers

\* Replacing the locals of one goroutine keeps all goroutines typed.
LEMMA BecomeType ==
    ASSUME TypeInv, NEW c \in Conns, NEW k \in Conn, Become(c, k)
    PROVE  /\ ConnsType'
           /\ conns'[c] = k
           /\ \A b \in Conns \ {c} : Locals(b)'
<1>1. conns \in [Conns -> Conn] /\ conns' = [conns EXCEPT ![c] = k]
  BY DEF TypeInv, TypeOK, Become
<1>2. ConnsType' /\ conns'[c] = k
  BY <1>1 DEF ConnsType
<1>3. \A b \in Conns \ {c} : conns'[b] = conns[b]
  BY <1>1
<1>4. \A b \in Conns \ {c} : Locals(b)'
  BY <1>3 DEF TypeInv, Locals
<1> QED
  BY <1>2, <1>4

\* A finished handler holds nothing.
LEMMA FinishType ==
    ASSUME TypeInv, NEW c \in Conns, NEW answer \in Answers, Finish(c, answer),
           conns[c].op = "announce" => Peer[c] \in Hosts
    PROVE  ConnsType' /\ \A b \in Conns : Locals(b)'
<1> DEFINE k == [Idle(c) EXCEPT !.at = "done", !.op = conns[c].op, !.answer = answer]
<1>1. conns[c].op \in Ops
  BY DEF TypeInv, TypeOK, Conn
<1>2. k \in Conn /\ k.host = Peer[c] /\ k.at = "done" /\ k.op = conns[c].op /\ k.form = "full"
  BY <1>1, HostAssumption DEF Idle, Conn, Steps, Ops, Answers
<1>3. Become(c, k)
  BY DEF Finish
<1>4. ConnsType' /\ conns'[c] = k /\ \A b \in Conns \ {c} : Locals(b)'
  BY <1>2, <1>3, BecomeType
<1>5. Locals(c)'
  BY <1>2, <1>4 DEF Locals
<1> QED
  BY <1>4, <1>5

\* A handler that moves on while it holds what it needs.
LEMMA HoldType ==
    ASSUME TypeInv, NEW c \in Conns, NEW k \in Conn, Become(c, k),
           k.host = Peer[c], (k.form = "full" \/ k.op # "announce"),
           k.host \in Hosts,
           k.at \in {"save", "columns", "delete"} => k.row \in Rows /\ k.copy \in Device,
           k.op \in {"keepalive", "register", "pin"} => k.ip \in Ips
    PROVE  ConnsType' /\ \A b \in Conns : Locals(b)'
<1>1. ConnsType' /\ conns'[c] = k /\ \A b \in Conns \ {c} : Locals(b)'
  BY BecomeType
<1>2. Locals(c)'
  BY <1>1 DEF Locals
<1> QED
  BY <1>1, <1>2

\* The table after a handler has written its copy back.
LEMMA SaveStep ==
    ASSUME TypeInv, UniqueDeviceId, NEW c \in Conns, conns[c].at = "save",
           devices' = Saved(devices, conns[c].row, conns[c].copy)
    PROVE  devices' \in Tables /\ UniqueDeviceId'
<1>1. devices \in Tables /\ Unique(devices) /\ conns[c].row \in Rows /\ conns[c].copy \in Device
  BY DEF TypeInv, TypeOK, UniqueDeviceId, Locals
<1>2. devices' \in Tables
  BY <1>1, SavedType
<1>3. Unique(Saved(devices, conns[c].row, conns[c].copy))
  BY <1>1, SavedUnique
<1>4. UniqueDeviceId'
  BY <1>3 DEF UniqueDeviceId, Unique
<1> QED
  BY <1>2, <1>4

Inv == TypeInv /\ UniqueDeviceId

LEMMA InitInv == Init => Inv
<1> SUFFICES ASSUME Init PROVE Inv
  OBVIOUS
<1>1. devices \in Tables /\ UniqueDeviceId
  BY LegacyAssumption DEF Init, UniqueDeviceId
<1>2. conns \in [Conns -> Conn] /\ \A c \in Conns : conns[c] = Idle(c)
  BY IdleType DEF Init
<1>3. sweep \in Tables /\ up \subseteq Hosts /\ restarts \in 0 .. MaxRestarts
  BY RestartsAssumption DEF Init, Tables
<1>4. \A c \in Conns : Locals(c)
  BY <1>2 DEF Locals, Idle
<1> QED
  BY <1>1, <1>2, <1>3, <1>4 DEF Inv, TypeInv, TypeOK

\* The arrival of a request.
LEMMA ArrivalInv ==
    ASSUME Inv, NEW c \in Conns, Arrival(c)
    PROVE  Inv'
<1>1. TypeInv /\ UniqueDeviceId /\ up \subseteq Hosts /\ Idle(c) \in Conn
  BY IdleType DEF Inv, TypeInv, TypeOK
<1>2. ASSUME ConnsType' /\ (\A b \in Conns : Locals(b)'), ReadOnly
      PROVE  Inv'
  BY <1>1, <1>2 DEF Inv, TypeInv, TypeOK, UniqueDeviceId, ReadOnly, Environment, ConnsType
<1>3. ASSUME NEW sent \in Ops, NEW op \in {"keepalive", "register", "pin"},
             NEW form \in {"full", "id", "bare"}, NEW ip \in Ips,
             NEW step \in {"byId", "byIp"}, Connect(c, sent, op, form, ip, step)
      PROVE  Inv'
  <2> DEFINE k == [Idle(c) EXCEPT !.at = step, !.op = op, !.form = form, !.ip = ip]
  <2>1. Become(c, k) /\ Peer[c] \in Hosts /\ ReadOnly
    BY <1>1, <1>3 DEF Connect, MayOpen
  <2>2. k \in Conn /\ k.host = Peer[c] /\ k.at = step /\ k.ip = ip /\ k.op = op
    BY <1>1 DEF Idle, Conn, Steps, Ops
  <2>3. ConnsType' /\ \A b \in Conns : Locals(b)'
    BY <1>1, <2>1, <2>2, HoldType
  <2> QED
    BY <1>2, <2>1, <2>3
<1>4. CASE KeepaliveArrives(c)
  BY <1>3, <1>4, HostAssumption DEF KeepaliveArrives, HeardAsPin, Ops
<1>5. CASE RegisterArrives(c)
  BY <1>3, <1>5, HostAssumption DEF RegisterArrives, HeardAsPin, Ops
<1>6. CASE PinArrives(c)
  BY <1>3, <1>6 DEF PinArrives, HeardAsPin, Ops
<1>7. CASE AnnounceArrives(c)
  <2>1. PICK ip \in Home[Peer[c]] \cup {NoIp} :
            Become(c, [Idle(c) EXCEPT !.at = "byId", !.op = "announce", !.ip = ip])
    BY <1>7 DEF AnnounceArrives
  <2> DEFINE k == [Idle(c) EXCEPT !.at = "byId", !.op = "announce", !.ip = ip]
  <2>2. Peer[c] \in Hosts /\ ip \in Ips \cup {NoIp} /\ ReadOnly
    BY <1>1, <1>7, HostAssumption DEF AnnounceArrives, MayOpen
  <2>3. k \in Conn /\ k.host = Peer[c] /\ k.at = "byId" /\ k.op = "announce" /\ k.form = "full"
    BY <1>1, <2>2 DEF Idle, Conn, Steps, Ops
  <2>4. ConnsType' /\ \A b \in Conns : Locals(b)'
    BY <1>1, <2>1, <2>2, <2>3, HoldType
  <2> QED
    BY <1>2, <2>2, <2>4
<1>8. ASSUME NEW op \in {"delete", "update"}, NEW step \in {"delete", "columns"},
             AdminLoads(c, op, step)
      PROVE  Inv'
  <2>1. PICK r \in Rows :
          \/ /\ devices[r] # NoRow
             /\ Become(c, [Idle(c) EXCEPT !.at = step, !.op = op, !.row = r, !.copy = devices[r]])
          \/ Become(c, [Idle(c) EXCEPT !.at = "done", !.op = op, !.answer = "ERROR"])
    BY <1>8 DEF AdminLoads
  <2> DEFINE j == [Idle(c) EXCEPT !.at = step, !.op = op, !.row = r, !.copy = devices[r]]
             k == [Idle(c) EXCEPT !.at = "done", !.op = op, !.answer = "ERROR"]
  <2>2. CASE devices[r] # NoRow /\ Become(c, j)
    <3>1. devices[r] \in Device
      BY <1>1, <2>2 DEF TypeInv, TypeOK, Tables
    <3>2. j \in Conn /\ j.host = Peer[c] /\ j.at = step /\ j.op = op /\ j.row = r
             /\ j.copy = devices[r]
      BY <1>1, <3>1 DEF Idle, Conn, Steps, Ops
    <3>3. ConnsType' /\ conns'[c] = j /\ \A b \in Conns \ {c} : Locals(b)'
      BY <1>1, <2>2, <3>2, BecomeType
    <3>4. Locals(c)'
      BY <3>1, <3>2, <3>3 DEF Locals
    <3> QED
      BY <1>2, <1>8, <3>3, <3>4 DEF AdminLoads
  <2>3. CASE Become(c, k)
    <3>1. k \in Conn /\ k.host = Peer[c] /\ k.at = "done" /\ k.op = op
      BY <1>1 DEF Idle, Conn, Steps, Ops, Answers
    <3>2. ConnsType' /\ conns'[c] = k /\ \A b \in Conns \ {c} : Locals(b)'
      BY <1>1, <2>3, <3>1, BecomeType
    <3>3. Locals(c)'
      BY <3>1, <3>2 DEF Locals
    <3> QED
      BY <1>2, <1>8, <3>2, <3>3 DEF AdminLoads
  <2> QED
    BY <2>1, <2>2, <2>3
<1>9. CASE DeleteArrives(c) \/ UpdateArrives(c)
  BY <1>8, <1>9 DEF DeleteArrives, UpdateArrives
<1> QED
  BY <1>4, <1>5, <1>6, <1>7, <1>9 DEF Arrival

\* The steps of a handler.
LEMMA HandlerInv ==
    ASSUME Inv, NEW c \in Conns, Handler(c)
    PROVE  Inv'
<1>1. /\ TypeInv /\ UniqueDeviceId /\ devices \in Tables /\ conns[c] \in Conn
      /\ Locals(c) /\ sweep \in Tables
  BY DEF Inv, TypeInv, TypeOK
<1>2. \A r \in Rows : devices[r] # NoRow => devices[r] \in Device
  BY <1>1 DEF Tables
<1>3. ASSUME ConnsType', \A b \in Conns : Locals(b)', ReadOnly
      PROVE  Inv'
  BY <1>1, <1>3 DEF Inv, TypeInv, TypeOK, UniqueDeviceId, ReadOnly, Environment, ConnsType
<1>4. ASSUME ConnsType', \A b \in Conns : Locals(b)', Environment,
             devices' \in Tables, UniqueDeviceId'
      PROVE  Inv'
  BY <1>1, <1>4 DEF Inv, TypeInv, TypeOK, Environment, ConnsType
<1>5. conns[c].op = "announce" => Peer[c] \in Hosts
  BY <1>1 DEF Locals
<1>6. ASSUME NEW answer \in Answers, Finish(c, answer)
      PROVE  ConnsType' /\ \A b \in Conns : Locals(b)'
  BY <1>1, <1>5, <1>6, FinishType
\* To hold a row just read, and to go on without one.
<1>7. ASSUME conns[c].at \in {"byId", "byIp", "byName"},
             NEW step \in {"save", "columns"}, NEW r \in Rows, NEW d \in Device,
             NEW answer \in Answers,
             Become(c, [conns[c] EXCEPT !.at = step, !.row = r, !.copy = d, !.answer = answer])
      PROVE  ConnsType' /\ \A b \in Conns : Locals(b)'
  <2> DEFINE k == [conns[c] EXCEPT !.at = step, !.row = r, !.copy = d, !.answer = answer]
  <2>1. /\ k \in Conn /\ k.host = conns[c].host /\ k.form = conns[c].form
        /\ k.ip = conns[c].ip /\ k.op = conns[c].op /\ k.row = r /\ k.copy = d /\ k.at = step
    BY <1>1 DEF Conn, Steps
  <2>2. /\ k.host = Peer[c] /\ k.host \in Hosts
        /\ k.form = "full" \/ k.op # "announce"
        /\ k.op \in {"keepalive", "register", "pin"} => k.ip \in Ips
    BY <1>1, <1>7, <2>1 DEF Locals
  <2> QED
    BY <1>1, <1>7, <2>1, <2>2, HoldType
<1>8. ASSUME conns[c].at \in {"byId", "byIp", "byName"},
             NEW step \in {"save", "columns"}, NEW r \in Rows, NEW d \in Device,
             Hold(c, r, d, step)
      PROVE  ConnsType' /\ \A b \in Conns : Locals(b)'
  <2>1. conns[c].answer \in Answers
    BY <1>1 DEF Conn
  <2>2. [conns[c] EXCEPT !.at = step, !.row = r, !.copy = d]
          = [conns[c] EXCEPT !.at = step, !.row = r, !.copy = d, !.answer = conns[c].answer]
    BY <1>1 DEF Conn
  <2>3. Become(c, [conns[c] EXCEPT !.at = step, !.row = r, !.copy = d,
                                   !.answer = conns[c].answer])
    BY <1>8, <2>2 DEF Hold
  <2> QED
    BY <1>7, <1>8, <2>1, <2>3
<1>9. ASSUME conns[c].at \in {"byId", "byIp", "byName"},
             NEW step \in {"byId", "byIp", "byName", "create"}, NEW answer \in Answers,
             Become(c, [conns[c] EXCEPT !.at = step, !.answer = answer])
      PROVE  ConnsType' /\ \A b \in Conns : Locals(b)'
  <2> DEFINE k == [conns[c] EXCEPT !.at = step, !.answer = answer]
  <2>1. /\ k \in Conn /\ k.host = conns[c].host /\ k.form = conns[c].form
        /\ k.ip = conns[c].ip /\ k.op = conns[c].op /\ k.at = step
    BY <1>1 DEF Conn, Steps
  <2>2. /\ k.host = Peer[c] /\ k.host \in Hosts
        /\ k.form = "full" \/ k.op # "announce"
        /\ k.op \in {"keepalive", "register", "pin"} => k.ip \in Ips
    BY <1>1, <1>9, <2>1 DEF Locals
  <2> QED
    BY <1>1, <1>9, <2>1, <2>2, HoldType
<1>10. ASSUME conns[c].at \in {"byId", "byIp", "byName"},
              NEW step \in {"byId", "byIp", "byName", "create"}, GoTo(c, step)
       PROVE  ConnsType' /\ \A b \in Conns : Locals(b)'
  <2>1. conns[c].answer \in Answers
    BY <1>1 DEF Conn
  <2>2. [conns[c] EXCEPT !.at = step] = [conns[c] EXCEPT !.at = step, !.answer = conns[c].answer]
    BY <1>1 DEF Conn
  <2> QED
    BY <1>9, <1>10, <2>1, <2>2 DEF GoTo
<1>11. NoAnswer \in Answers /\ "OK" \in Answers /\ "ERROR" \in Answers /\ "PIN" \in Answers
  BY DEF Answers
<1>12. \A r, S : IsFirst(r, S) => r \in S
  BY DEF IsFirst
<1>13. /\ \A r \in ById(conns[c]) : r \in Rows /\ devices[r] \in Device
       /\ \A r \in ByIp(conns[c]) : r \in Rows /\ devices[r] \in Device
       /\ \A r \in ByName(conns[c]) : r \in Rows /\ devices[r] \in Device
  BY <1>2 DEF ById, ByIp, ByName, Live
<1>14. CASE KeepaliveById(c) \/ KeepaliveByIp(c)
  <2>1. conns[c].at \in {"byId", "byIp"} /\ conns[c].op = "keepalive" /\ ReadOnly
    BY <1>14 DEF KeepaliveById, KeepaliveByIp, At
  <2>2. conns[c].host \in Hosts /\ conns[c].ip \in Ips
    BY <1>1, <2>1 DEF Locals
  <2>3. \A d \in Device : KeepaliveEdit(conns[c], d) \in Device
    BY <1>1, <2>2, EditsType
  <2>4. \/ \E r \in Rows : devices[r] \in Device
                           /\ Hold(c, r, KeepaliveEdit(conns[c], devices[r]), "save")
        \/ GoTo(c, "byIp")
        \/ Finish(c, NoAnswer)
    BY <1>12, <1>13, <1>14 DEF KeepaliveById, KeepaliveByIp
  <2>5. ConnsType' /\ \A b \in Conns : Locals(b)'
    BY <1>6, <1>8, <1>10, <1>11, <2>1, <2>3, <2>4
  <2> QED
    BY <1>3, <2>1, <2>5
<1>15. CASE KeepaliveSave(c) \/ RegisterSave(c) \/ PinSave(c)
  <2>1. /\ conns[c].at = "save" /\ devices' = Saved(devices, conns[c].row, conns[c].copy)
        /\ Environment
        /\ Finish(c, NoAnswer) \/ Finish(c, "PIN") \/ Finish(c, conns[c].answer)
    BY <1>15 DEF KeepaliveSave, RegisterSave, PinSave, At
  <2>2. conns[c].answer \in Answers
    BY <1>1 DEF Conn
  <2>3. ConnsType' /\ \A b \in Conns : Locals(b)'
    BY <1>6, <1>11, <2>1, <2>2
  <2>4. devices' \in Tables /\ UniqueDeviceId'
    BY <1>1, <2>1, SaveStep
  <2> QED
    BY <1>4, <2>1, <2>3, <2>4
<1>16. CASE PinByIp(c)
  <2>1. conns[c].at = "byIp" /\ ReadOnly
    BY <1>16 DEF PinByIp, At
  <2>2. CASE Finish(c, NoAnswer)
    BY <1>3, <1>6, <1>11, <2>1, <2>2
  <2>3. CASE ~Finish(c, NoAnswer)
    <3>1. PICK r \in Rows :
            /\ devices[r] \in Device
            /\ Become(c, [conns[c] EXCEPT !.at = "save", !.row = r, !.answer = "PIN",
                                          !.copy = [devices[r] EXCEPT !.status = "Online"]])
      BY <1>12, <1>13, <1>16, <2>3 DEF PinByIp
    <3> DEFINE d == [devices[r] EXCEPT !.status = "Online"]
    <3>2. d \in Device
      BY <3>1 DEF Device, Status
    <3>3. [conns[c] EXCEPT !.at = "save", !.row = r, !.answer = "PIN", !.copy = d]
            = [conns[c] EXCEPT !.at = "save", !.row = r, !.copy = d, !.answer = "PIN"]
      BY <1>1 DEF Conn
    <3>4. Become(c, [conns[c] EXCEPT !.at = "save", !.row = r, !.copy = d, !.answer = "PIN"])
      BY <3>1, <3>3
    <3>5. ConnsType' /\ \A b \in Conns : Locals(b)'
      BY <1>7, <1>11, <2>1, <3>2, <3>4
    <3> QED
      BY <1>3, <2>1, <3>5
  <2> QED
    BY <2>2, <2>3
<1>17. CASE RegisterByIp(c)
  <2>1. conns[c].at = "byIp" /\ conns[c].op = "register" /\ ReadOnly
    BY <1>17 DEF RegisterByIp, At
  <2>2. conns[c].host \in Hosts
    BY <1>1, <2>1 DEF Locals
  <2>3. \A d \in Device : ReinstallEdit(conns[c], d) \in Device
    BY <1>1, <2>2, EditsType
  <2>4. \/ \E r \in Rows : devices[r] \in Device
                           /\ Hold(c, r, ReinstallEdit(conns[c], devices[r]), "save")
        \/ GoTo(c, "byId")
        \/ Finish(c, NoAnswer)
        \/ Finish(c, "ERROR")
    BY <1>12, <1>13, <1>17 DEF RegisterByIp
  <2>5. ConnsType' /\ \A b \in Conns : Locals(b)'
    BY <1>6, <1>8, <1>10, <1>11, <2>1, <2>3, <2>4
  <2> QED
    BY <1>3, <2>1, <2>5
<1>18. CASE RegisterById(c)
  <2>1. conns[c].at = "byId" /\ conns[c].op = "register" /\ ReadOnly
    BY <1>18 DEF RegisterById, At
  <2>2. conns[c].host \in Hosts /\ conns[c].ip \in Ips
    BY <1>1, <2>1 DEF Locals
  <2>3. \A d \in Device : MovedEdit(conns[c], d) \in Device
    BY <1>1, <2>2, EditsType
  <2>4. \/ \E r \in Rows :
             /\ devices[r] \in Device
             /\ Become(c, [conns[c] EXCEPT !.at = "save", !.row = r, !.answer = "OK",
                                           !.copy = MovedEdit(conns[c], devices[r])])
        \/ Finish(c, "ERROR")
        \/ Become(c, [conns[c] EXCEPT !.at = "create", !.answer = "OK"])
    BY <1>12, <1>13, <1>18 DEF RegisterById
  <2>5. \A r \in Rows, d \in Device :
            [conns[c] EXCEPT !.at = "save", !.row = r, !.answer = "OK", !.copy = d]
              = [conns[c] EXCEPT !.at = "save", !.row = r, !.copy = d, !.answer = "OK"]
    BY <1>1 DEF Conn
  <2>6. ASSUME NEW r \in Rows, devices[r] \in Device,
               Become(c, [conns[c] EXCEPT !.at = "save", !.row = r, !.answer = "OK",
                                          !.copy = MovedEdit(conns[c], devices[r])])
        PROVE  ConnsType' /\ \A b \in Conns : Locals(b)'
    <3> DEFINE d == MovedEdit(conns[c], devices[r])
    <3>1. d \in Device
      BY <2>3, <2>6
    <3>2. Become(c, [conns[c] EXCEPT !.at = "save", !.row = r, !.copy = d, !.answer = "OK"])
      BY <2>5, <2>6, <3>1
    <3> QED
      BY <1>7, <1>11, <2>1, <3>1, <3>2
  <2>7. ConnsType' /\ \A b \in Conns : Locals(b)'
    BY <1>6, <1>9, <1>11, <2>1, <2>4, <2>6
  <2> QED
    BY <1>3, <2>1, <2>7
<1>19. ASSUME NEW pw \in Hosts \cup {NoPw}, NEW status \in Status, NEW r \in Rows,
              conns[c].host \in Hosts,
              devices' = Created(devices, r, NewDevice(conns[c], pw, status))
       PROVE  devices' \in Tables /\ UniqueDeviceId'
  <2> DEFINE d == NewDevice(conns[c], pw, status)
  <2>1. d \in Device
    BY <1>1, <1>19, NewDeviceType
  <2>2. Unique(Created(devices, r, d)) /\ Created(devices, r, d) \in Tables
    BY <1>1, <2>1, SavedUnique, SavedType DEF UniqueDeviceId
  <2> QED
    BY <1>19, <2>2 DEF UniqueDeviceId, Unique
<1>20. \A r \in Fresh : r \in Rows
  BY DEF Fresh
<1>21. CASE RegisterCreate(c) \/ AnnounceCreate(c)
  <2>1. conns[c].at = "create" /\ Environment /\ Finish(c, "OK")
    BY <1>21 DEF RegisterCreate, AnnounceCreate, At
  <2>2. conns[c].host \in Hosts /\ SentPw(conns[c]) \in Hosts \cup {NoPw}
    BY <1>1, <2>1 DEF Locals, SentPw
  <2>3. PICK r \in Rows, pw \in Hosts \cup {NoPw}, status \in Status :
            devices' = Created(devices, r, NewDevice(conns[c], pw, status))
    BY <1>20, <1>21, <2>2 DEF RegisterCreate, AnnounceCreate, Status
  <2>4. devices' \in Tables /\ UniqueDeviceId'
    BY <1>19, <2>2, <2>3
  <2>5. ConnsType' /\ \A b \in Conns : Locals(b)'
    BY <1>6, <1>11, <2>1
  <2> QED
    BY <1>4, <2>1, <2>4, <2>5
<1>22. CASE AnnounceById(c) \/ AnnounceByIp(c) \/ AnnounceByName(c)
  <2>1. conns[c].at \in {"byId", "byIp", "byName"} /\ ReadOnly
    BY <1>22 DEF AnnounceById, AnnounceByIp, AnnounceByName, AnnounceLookup, At
  <2>2. \/ \E r \in Rows : devices[r] \in Device /\ Hold(c, r, devices[r], "columns")
        \/ \E step \in {"byName", "byIp", "create"} : GoTo(c, step)
    BY <1>12, <1>13, <1>22
    DEF AnnounceById, AnnounceByIp, AnnounceByName, AnnounceLookup
  <2>3. ConnsType' /\ \A b \in Conns : Locals(b)'
    BY <1>8, <1>10, <2>1, <2>2
  <2> QED
    BY <1>3, <2>1, <2>3
<1>23. CASE AnnounceUpdate(c)
  <2>1. /\ conns[c].at = "columns" /\ conns[c].op = "announce"
        /\ Environment /\ Finish(c, "OK")
    BY <1>23 DEF AnnounceUpdate, At
  <2>2. conns[c].row \in Rows /\ conns[c].host \in Hosts /\ conns[c].form = "full"
    BY <1>1, <2>1 DEF Locals
  <2>3. devices' \in Tables /\ UniqueDeviceId'
    <3>1. CASE devices[conns[c].row] = NoRow
      <4>1. devices' = devices
        BY <1>23, <3>1 DEF AnnounceUpdate
      <4> QED
        BY <1>1, <4>1 DEF UniqueDeviceId
    <3>2. CASE devices[conns[c].row] # NoRow
      <4> DEFINE d == Announced(conns[c], devices[conns[c].row])
      <4>1. devices[conns[c].row] \in Device
        BY <1>2, <2>2, <3>2
      <4>2. d \in Device
        BY <1>1, <2>2, <4>1, EditsType
      <4>3. devices' = Saved(devices, conns[c].row, d)
        BY <1>23, <3>2 DEF AnnounceUpdate
      <4>4. Unique(Saved(devices, conns[c].row, d)) /\ Saved(devices, conns[c].row, d) \in Tables
        BY <1>1, <2>2, <4>2, SavedUnique, SavedType DEF UniqueDeviceId
      <4> QED
        BY <4>3, <4>4 DEF UniqueDeviceId, Unique
    <3> QED
      BY <3>1, <3>2
  <2>4. ConnsType' /\ \A b \in Conns : Locals(b)'
    BY <1>6, <1>11, <2>1
  <2> QED
    BY <1>4, <2>1, <2>3, <2>4
<1>24. CASE DeleteRow(c)
  <2>1. Environment /\ Finish(c, "OK") /\ devices' = [devices EXCEPT ![conns[c].row] = NoRow]
    BY <1>24 DEF DeleteRow
  <2>2. devices' \in Tables /\ UniqueDeviceId'
    BY <1>1, <2>1 DEF UniqueDeviceId, Unique, Tables
  <2>3. ConnsType' /\ \A b \in Conns : Locals(b)'
    BY <1>6, <1>11, <2>1
  <2> QED
    BY <1>4, <2>1, <2>2, <2>3
<1>25. CASE UpdateIp(c)
  <2>1. Environment /\ Finish(c, "OK")
    BY <1>25 DEF UpdateIp
  <2>2. PICK ip \in Ips :
            devices' = IF devices[conns[c].row] = NoRow
                       THEN devices
                       ELSE [devices EXCEPT ![conns[c].row].ip = ip]
    BY <1>25, HostAssumption DEF UpdateIp
  <2>3. conns[c].row \in Rows
    BY <1>1, <1>25 DEF UpdateIp, At, Locals
  <2>4. devices' \in Tables /\ UniqueDeviceId'
    <3>1. CASE devices[conns[c].row] = NoRow
      BY <1>1, <2>2, <3>1 DEF UniqueDeviceId
    <3>2. CASE devices[conns[c].row] # NoRow
      <4> DEFINE d == [devices[conns[c].row] EXCEPT !.ip = ip]
      <4>1. devices[conns[c].row] \in Device
        BY <1>2, <2>3, <3>2
      <4>2. d \in Device /\ d.deviceId = devices[conns[c].row].deviceId /\ d # NoRow
        BY <4>1, NullAssumption DEF Device
      <4>3. devices' = [devices EXCEPT ![conns[c].row] = d]
        BY <2>2, <3>2
      <4> HIDE DEF d
      <4> QED
        BY <1>1, <2>3, <3>2, <4>2, <4>3 DEF UniqueDeviceId, Unique, Tables
    <3> QED
      BY <3>1, <3>2
  <2>5. ConnsType' /\ \A b \in Conns : Locals(b)'
    BY <1>6, <1>11, <2>1
  <2> QED
    BY <1>4, <2>1, <2>4, <2>5
<1>26. CASE Close(c)
  <2>1. Become(c, Idle(c)) /\ ReadOnly /\ Idle(c) \in Conn
    BY <1>26, IdleType DEF Close
  <2>2. ConnsType' /\ conns'[c] = Idle(c) /\ \A b \in Conns \ {c} : Locals(b)'
    BY <1>1, <2>1, BecomeType
  <2>3. Locals(c)'
    BY <2>2 DEF Locals, Idle
  <2> QED
    BY <1>3, <2>1, <2>2, <2>3
<1> QED
  BY <1>14, <1>15, <1>16, <1>17, <1>18, <1>21, <1>22, <1>23, <1>24, <1>25, <1>26 DEF Handler

\* The monitor, time, machines and the process.
LEMMA SystemInv ==
    ASSUME Inv,
           \/ SweepStart \/ (\E r \in Rows : SweepRow(r)) \/ Tick \/ Restart
           \/ \E h \in Hosts : SwitchOff(h) \/ SwitchOn(h)
    PROVE  Inv'
<1>1. /\ TypeInv /\ UniqueDeviceId /\ devices \in Tables /\ conns \in [Conns -> Conn]
      /\ sweep \in Tables /\ up \subseteq Hosts /\ restarts \in 0 .. MaxRestarts
  BY DEF Inv, TypeInv, TypeOK
<1>2. ASSUME UNCHANGED conns, devices' \in Tables, UniqueDeviceId', sweep' \in Tables,
             up' \subseteq Hosts, restarts' = restarts
      PROVE  Inv'
  BY <1>1, <1>2 DEF Inv, TypeInv, TypeOK, Locals
<1>3. CASE SweepStart
  <2>1. sweep' \in Tables
    BY <1>1, <1>3 DEF SweepStart, Tables, Live
  <2> QED
    BY <1>1, <1>2, <1>3, <2>1 DEF SweepStart, UniqueDeviceId
<1>4. ASSUME NEW r \in Rows, SweepRow(r)
      PROVE  Inv'
  <2> DEFINE d == [sweep[r] EXCEPT !.status = "Offline"]
  <2>1. sweep[r] \in Device
    BY <1>1, <1>4 DEF SweepRow, Tables
  <2>2. d \in Device
    BY <2>1 DEF Device, Status
  <2>3. devices' = Saved(devices, r, d) \/ devices' = devices
    BY <1>4 DEF SweepRow
  <2>4. Unique(Saved(devices, r, d)) /\ Saved(devices, r, d) \in Tables
    BY <1>1, <2>2, SavedUnique, SavedType DEF UniqueDeviceId
  <2>5. devices' \in Tables /\ UniqueDeviceId'
    BY <1>1, <2>3, <2>4 DEF UniqueDeviceId, Unique
  <2>6. sweep' \in Tables
    BY <1>1, <1>4 DEF SweepRow, Tables
  <2> QED
    BY <1>1, <1>2, <1>4, <2>5, <2>6 DEF SweepRow
<1>5. CASE Tick
  <2>1. \A d \in Device \cup {NoRow} : Older(d) \in Device \cup {NoRow}
    BY OlderDevice, OlderNone
  <2>2. devices' \in Tables /\ sweep' \in Tables
    BY <1>1, <1>5, <2>1 DEF Tick, Tables
  <2>3. UniqueDeviceId'
    <3>1. \A r \in Rows : devices'[r] = Older(devices[r])
      BY <1>5 DEF Tick
    <3>2. \A r \in Rows : devices'[r] # NoRow
              => devices[r] # NoRow /\ devices'[r].deviceId = devices[r].deviceId
      BY <1>1, <3>1, OlderDevice, OlderNone DEF Tables
    <3> QED
      BY <1>1, <3>2 DEF UniqueDeviceId, Unique
  <2>4. ASSUME NEW c \in Conns
        PROVE  conns'[c] \in Conn /\ Locals(c)'
    <3>1. conns'[c] = [conns[c] EXCEPT !.copy = Older(conns[c].copy)]
      BY <1>1, <1>5 DEF Tick
    <3>2. Older(conns[c].copy) \in Device \cup {NoRow}
      BY <1>1, <2>1 DEF Conn
    <3>3. /\ conns'[c] \in Conn
          /\ conns'[c].copy = Older(conns[c].copy)
          /\ conns'[c].host = conns[c].host /\ conns'[c].at = conns[c].at
          /\ conns'[c].op = conns[c].op /\ conns'[c].form = conns[c].form
          /\ conns'[c].ip = conns[c].ip /\ conns'[c].row = conns[c].row
      BY <1>1, <3>1, <3>2 DEF Conn
    <3>4. conns[c].copy \in Device => conns'[c].copy \in Device
      BY <3>3, OlderDevice
    <3>5. Locals(c)
      BY <1>1 DEF TypeInv
    <3> QED
      BY <3>3, <3>4, <3>5 DEF Locals
  <2>5. conns' = [c \in Conns |-> conns'[c]]
    BY <1>5 DEF Tick
  <2>6. conns' \in [Conns -> Conn]
    BY <2>4, <2>5
  <2> QED
    BY <1>1, <1>5, <2>2, <2>3, <2>4, <2>6 DEF Tick, Inv, TypeInv, TypeOK
<1>6. CASE Restart
  <2>1. conns' = [c \in Conns |-> Idle(c)] /\ sweep' = [r \in Rows |-> NoRow]
        /\ restarts' \in 0 .. MaxRestarts /\ UNCHANGED <<devices, up>>
    BY <1>1, <1>6, RestartsAssumption DEF Restart
  <2>2. conns' \in [Conns -> Conn] /\ sweep' \in Tables
    BY <2>1, IdleType DEF Tables
  <2>3. \A c \in Conns : Locals(c)'
    BY <2>1 DEF Locals, Idle
  <2> QED
    BY <1>1, <2>1, <2>2, <2>3 DEF Inv, TypeInv, TypeOK, UniqueDeviceId, Unique
<1>7. CASE \E h \in Hosts : SwitchOff(h) \/ SwitchOn(h)
  <2>1. up' \subseteq Hosts /\ UNCHANGED <<devices, conns, sweep, restarts>>
    BY <1>1, <1>7 DEF SwitchOff, SwitchOn
  <2> QED
    BY <1>1, <1>2, <2>1 DEF UniqueDeviceId
<1> QED
  BY <1>3, <1>4, <1>5, <1>6, <1>7

\* Every reachable state of the registry is typed, and no interleaving of
\* handlers, sweeps and restarts stores one device_id twice (gorm.go:66).
THEOREM Correct == Spec => [](TypeOK /\ UniqueDeviceId)
<1>1. Inv /\ [Next]_vars => Inv'
  <2> SUFFICES ASSUME Inv, [Next]_vars PROVE Inv'
    OBVIOUS
  <2>1. CASE UNCHANGED vars
    BY <2>1 DEF vars, Inv, TypeInv, TypeOK, UniqueDeviceId, Unique, Locals
  <2>2. CASE Next
    BY <2>2, ArrivalInv, HandlerInv, SystemInv DEF Next
  <2> QED
    BY <2>1, <2>2
<1>2. Inv => TypeOK /\ UniqueDeviceId
  BY DEF Inv, TypeInv
<1> QED
  BY InitInv, <1>1, <1>2, PTL DEF Spec

\* In particular every variable keeps its type: no handler stores a row without
\* the fields it was found with, or goes on with a local it has not set.
COROLLARY Typed == Spec => []TypeOK
BY Correct, PTL

-----------------------------------------------------------------------------
(***************************************************************************)
(* Ownership.  Where addresses and hostnames tell machines apart, the      *)
(* registry keeps machines apart: no interleaving mixes their rows or PINs.*)
(*                                                                         *)
(* The rows alone are not inductive: a handler or the monitor may write    *)
(* back a copy read long ago.  The invariant therefore speaks of every     *)
(* holder of a row, the table, the monitor and all goroutines, and says    *)
(* that one machine owns them all.                                         *)
(***************************************************************************)

\* The pre-V4 rows a backend may start with belong to one machine each.
LegacyOwned ==
    \A t \in LegacyTables : \A r \in Rows :
        t[r] # NoRow => \E h \in Hosts : OwnedBy(t[r], h)

\* Every version of row r that is stored or held somewhere.
Holders(r) ==
    {d \in Device : \/ d = devices[r] \/ d = sweep[r]
                    \/ \E c \in Conns : conns[c].row = r /\ conns[c].copy = d}

OneOwner == \A r \in Rows : \E h \in Hosts : \A d \in Holders(r) : OwnedBy(d, h)

\* A handler that serves a machine uses an address of that machine, and the
\* row it has found is a row of that machine.
Placed(k) ==
    (k.at \notin {"idle", "done"} /\ k.op \notin {"delete", "update"}) =>
        /\ k.host \in Hosts
        /\ k.ip \in Home[k.host] \cup {NoIp}
        /\ k.at = "byIp" => k.ip # NoIp
        /\ k.at = "byId" => k.form # "bare"
        /\ k.at \in {"byId", "byIp", "byName", "create"} => k.copy = NoRow
        /\ k.at \in {"save", "columns"} => OwnedBy(k.copy, k.host)

OwnInv == OneOwner /\ \A c \in Conns : Placed(conns[c])

-----------------------------------------------------------------------------
(* Ownership of a row.                                                     *)

\* Separated machines do not own the same row.
LEMMA OwnerUnique ==
    ASSUME Separated, NEW d, NEW o \in Hosts, NEW h \in Hosts,
           OwnedBy(d, o), OwnedBy(d, h)
    PROVE  o = h
BY DEF Separated, OwnedBy

\* The device_id, an address or the name of a row tell its owner.
LEMMA OwnerKnown ==
    ASSUME Separated, NEW d, NEW o \in Hosts, NEW h \in Hosts, OwnedBy(d, o),
           d.deviceId = h \/ d.ip \in Home[h] \/ d.name = HostName[h]
    PROVE  o = h
<1>1. Home[h] \subseteq Ips
  BY HostAssumption
<1> QED
  BY <1>1, NullAssumption DEF Separated, OwnedBy

\* What handlers do to a row of machine k.host leaves it a row of k.host.
LEMMA EditsOwned ==
    ASSUME NEW k \in Conn, k.host \in Hosts, k.ip \in Home[k.host] \cup {NoIp},
           NEW d \in Device, OwnedBy(d, k.host)
    PROVE  /\ OwnedBy(KeepaliveEdit(k, d), k.host)
           /\ OwnedBy(ReinstallEdit(k, d), k.host)
           /\ OwnedBy(MovedEdit(k, d), k.host)
           /\ OwnedBy(Announced(k, d), k.host)
           /\ OwnedBy([d EXCEPT !.status = "Online"], k.host)
           /\ \A pw \in {k.host, NoPw}, status \in Status : OwnedBy(NewDevice(k, pw, status), k.host)
<1>1. SentId(k) \in {k.host, NoId} /\ SentPw(k) \in {k.host, NoPw}
  BY DEF SentId, SentPw
<1>2. OwnedBy(KeepaliveEdit(k, d), k.host)
  BY <1>1 DEF KeepaliveEdit, OwnedBy, Device
<1>3. OwnedBy(ReinstallEdit(k, d), k.host)
  BY <1>1 DEF ReinstallEdit, OwnedBy, Device
<1>4. OwnedBy(MovedEdit(k, d), k.host)
  BY <1>1 DEF MovedEdit, OwnedBy, Device
<1>5. OwnedBy(Announced(k, d), k.host)
  BY <1>1 DEF Announced, OwnedBy, Device
<1>6. OwnedBy([d EXCEPT !.status = "Online"], k.host)
  BY DEF OwnedBy, Device
<1>7. \A pw \in {k.host, NoPw}, status \in Status : OwnedBy(NewDevice(k, pw, status), k.host)
  BY <1>1 DEF NewDevice, OwnedBy
<1> QED
  BY <1>2, <1>3, <1>4, <1>5, <1>6, <1>7

-----------------------------------------------------------------------------
(* The three ways a step changes the holders of rows.                      *)

\* A goroutine takes a (possibly edited) copy of a stored row, or drops its own.
LEMMA ReadKeeps ==
    ASSUME Inv, OwnInv, NEW c \in Conns, NEW k \in Conn, Become(c, k), ReadOnly,
           k.copy # NoRow =>
               /\ k.row \in Rows /\ devices[k.row] \in Device
               /\ \A h \in Hosts : OwnedBy(devices[k.row], h) => OwnedBy(k.copy, h),
           Placed(k)
    PROVE  OwnInv'
<1>1. conns \in [Conns -> Conn] /\ conns' = [conns EXCEPT ![c] = k]
  BY DEF Inv, TypeInv, TypeOK, Become
<1>2. UNCHANGED <<devices, sweep>>
  BY DEF ReadOnly, Environment
<1>3. \A b \in Conns : conns'[b] = IF b = c THEN k ELSE conns[b]
  BY <1>1
<1>4. OneOwner'
  <2> SUFFICES ASSUME NEW r \in Rows
               PROVE  \E h \in Hosts : \A d \in Holders(r)' : OwnedBy(d, h)
    BY DEF OneOwner
  <2>1. PICK h \in Hosts : \A d \in Holders(r) : OwnedBy(d, h)
    BY DEF OwnInv, OneOwner
  <2>2. ASSUME NEW d \in Holders(r)'
        PROVE  OwnedBy(d, h)
    <3>1. d \in Device
      BY <2>2 DEF Holders
    <3>2. CASE d \in Holders(r)
      BY <2>1, <3>2
    <3>3. CASE d \notin Holders(r)
      <4>1. PICK b \in Conns : conns'[b].row = r /\ conns'[b].copy = d
        BY <1>2, <2>2, <3>1, <3>3 DEF Holders
      <4>2. k.row = r /\ k.copy = d
        BY <1>3, <3>1, <3>3, <4>1 DEF Holders
      <4>3. devices[r] \in Holders(r)
        BY <3>1, <4>2, NullAssumption DEF Holders
      <4> QED
        BY <2>1, <3>1, <4>2, <4>3, NullAssumption
    <3> QED
      BY <3>2, <3>3
  <2> QED
    BY <2>2
<1>5. \A b \in Conns : Placed(conns'[b])
  BY <1>3 DEF OwnInv
<1> QED
  BY <1>4, <1>5 DEF OwnInv

\* A goroutine writes a row that the owner of row r owns, or deletes row r.
LEMMA WriteKeeps ==
    ASSUME Inv, OwnInv, NEW c \in Conns, NEW answer \in Answers, Finish(c, answer),
           Environment, NEW r \in Rows, NEW e \in Device \cup {NoRow},
           devices' = devices \/ devices' = [devices EXCEPT ![r] = e],
           \A h \in Hosts : (e # NoRow /\ \A d \in Holders(r) : OwnedBy(d, h))
                                => OwnedBy(e, h)
    PROVE  OwnInv'
<1> DEFINE k == [Idle(c) EXCEPT !.at = "done", !.op = conns[c].op, !.answer = answer]
<1>1. conns \in [Conns -> Conn] /\ conns' = [conns EXCEPT ![c] = k] /\ devices \in Tables
  BY DEF Inv, TypeInv, TypeOK, Become, Finish
<1>2. k.at = "done" /\ k.copy = NoRow
  BY DEF Idle
<1>3. \A b \in Conns : conns'[b] = IF b = c THEN k ELSE conns[b]
  BY <1>1
<1>4. sweep' = sweep
  BY DEF Environment
<1>5. OneOwner'
  <2> SUFFICES ASSUME NEW q \in Rows
               PROVE  \E h \in Hosts : \A d \in Holders(q)' : OwnedBy(d, h)
    BY DEF OneOwner
  <2>1. PICK h \in Hosts : \A d \in Holders(q) : OwnedBy(d, h)
    BY DEF OwnInv, OneOwner
  <2>2. ASSUME NEW d \in Holders(q)'
        PROVE  OwnedBy(d, h)
    <3>1. d \in Device /\ d # NoRow
      BY <2>2, NullAssumption DEF Holders
    <3>2. d \in Holders(q) \/ d = devices'[q]
      BY <1>2, <1>3, <1>4, <2>2, <3>1 DEF Holders
    <3>3. CASE d \in Holders(q)
      BY <2>1, <3>3
    <3>4. CASE d = devices'[q] /\ d \notin Holders(q)
      <4>1. d # devices[q]
        BY <3>1, <3>4 DEF Holders
      <4>2. q = r /\ d = e
        BY <1>1, <3>4, <4>1 DEF Tables
      <4> QED
        BY <2>1, <3>1, <4>2
    <3> QED
      BY <3>2, <3>3, <3>4
  <2> QED
    BY <2>2
<1>6. \A b \in Conns : Placed(conns'[b])
  BY <1>2, <1>3 DEF OwnInv, Placed
<1> QED
  BY <1>5, <1>6 DEF OwnInv

\* A goroutine creates a row under a key nobody holds.
LEMMA CreateKeeps ==
    ASSUME Inv, OwnInv, NEW c \in Conns, NEW answer \in Answers, Finish(c, answer),
           Environment, NEW r \in Fresh, NEW e \in Device, NEW o \in Hosts, OwnedBy(e, o),
           devices' = devices \/ devices' = [devices EXCEPT ![r] = e]
    PROVE  OwnInv'
<1> DEFINE k == [Idle(c) EXCEPT !.at = "done", !.op = conns[c].op, !.answer = answer]
<1>1. /\ conns \in [Conns -> Conn] /\ conns' = [conns EXCEPT ![c] = k]
      /\ devices \in Tables /\ r \in Rows
  BY DEF Inv, TypeInv, TypeOK, Become, Finish, Fresh
<1>2. k.at = "done" /\ k.copy = NoRow
  BY DEF Idle
<1>3. \A b \in Conns : conns'[b] = IF b = c THEN k ELSE conns[b]
  BY <1>1
<1>4. sweep' = sweep
  BY DEF Environment
<1>5. OneOwner'
  <2> SUFFICES ASSUME NEW q \in Rows
               PROVE  \E h \in Hosts : \A d \in Holders(q)' : OwnedBy(d, h)
    BY DEF OneOwner
  <2>1. ASSUME NEW d \in Holders(q)'
        PROVE  d \in Holders(q) \/ (q = r /\ d = e)
    <3>1. d \in Device /\ d # NoRow
      BY <2>1, NullAssumption DEF Holders
    <3>2. d \in Holders(q) \/ d = devices'[q]
      BY <1>2, <1>3, <1>4, <2>1, <3>1 DEF Holders
    <3> QED
      BY <1>1, <3>1, <3>2 DEF Holders, Tables
  <2>2. Holders(r) = {}
    BY NullAssumption DEF Holders, Fresh
  <2>3. CASE q = r
    BY <2>1, <2>2, <2>3
  <2>4. CASE q # r
    BY <2>1, <2>4 DEF OwnInv, OneOwner
  <2> QED
    BY <2>3, <2>4
<1>6. \A b \in Conns : Placed(conns'[b])
  BY <1>2, <1>3 DEF OwnInv, Placed
<1> QED
  BY <1>5, <1>6 DEF OwnInv

-----------------------------------------------------------------------------
(* The steps.                                                              *)

LEMMA InitOwn == LegacyOwned /\ Init => OwnInv
<1> SUFFICES ASSUME LegacyOwned, Init PROVE OwnInv
  OBVIOUS
<1>1. \A c \in Conns : conns[c] = Idle(c)
  BY DEF Init
<1>2. ASSUME NEW c \in Conns
      PROVE  conns[c].at = "idle" /\ conns[c].copy = NoRow
  <2>1. Idle(c).at = "idle" /\ Idle(c).copy = NoRow
    BY DEF Idle
  <2> QED
    BY <1>1, <2>1
<1>3. ASSUME NEW r \in Rows
      PROVE  \E h \in Hosts : \A d \in Holders(r) : OwnedBy(d, h)
  <2>1. \A d \in Holders(r) : d = devices[r] /\ d # NoRow
    BY <1>2, NullAssumption DEF Init, Holders
  <2>2. CASE devices[r] # NoRow
    BY <2>1, <2>2 DEF Init, LegacyOwned
  <2>3. CASE devices[r] = NoRow
    <3>1. Holders(r) = {}
      BY <2>1, <2>3
    <3> QED
      BY <3>1, HostAssumption
  <2> QED
    BY <2>2, <2>3
<1>4. \A c \in Conns : Placed(conns[c])
  BY <1>2 DEF Placed
<1>5. OneOwner
  BY <1>3 DEF OneOwner
<1> QED
  BY <1>4, <1>5 DEF OwnInv

\* The rows a lookup by a machine finds are its own.
LEMMA FoundOwned ==
    ASSUME Separated, Inv, OwnInv, NEW c \in Conns, conns[c].host \in Hosts, NEW r \in Rows,
           \/ r \in ById(conns[c]) /\ conns[c].form # "bare"
           \/ r \in ByIp(conns[c]) /\ conns[c].ip \in Home[conns[c].host]
           \/ r \in ByName(conns[c])
    PROVE  devices[r] \in Device /\ OwnedBy(devices[r], conns[c].host)
<1>1. devices[r] \in Device
  BY DEF Inv, TypeInv, TypeOK, Tables, ById, ByIp, ByName, Live
<1>2. PICK o \in Hosts : \A d \in Holders(r) : OwnedBy(d, o)
  BY DEF OwnInv, OneOwner
<1>3. OwnedBy(devices[r], o)
  BY <1>1, <1>2 DEF Holders
<1>4. \/ devices[r].deviceId = conns[c].host
      \/ devices[r].ip \in Home[conns[c].host]
      \/ devices[r].name = HostName[conns[c].host]
  BY DEF ById, ByIp, ByName, SentId
<1>5. o = conns[c].host
  BY <1>3, <1>4, OwnerKnown
<1> QED
  BY <1>1, <1>3, <1>5

\* The arrival of a request.
LEMMA ArrivalOwn ==
    ASSUME Separated, Inv, OwnInv, NEW c \in Conns, Arrival(c)
    PROVE  OwnInv'
<1>1. up \subseteq Hosts /\ Idle(c) \in Conn /\ devices \in Tables
  BY IdleType DEF Inv, TypeInv, TypeOK
<1>2. ASSUME NEW sent \in Ops, NEW op \in {"keepalive", "register", "pin"},
             NEW form \in {"full", "id", "bare"}, NEW ip \in Ips,
             NEW step \in {"byId", "byIp"}, Connect(c, sent, op, form, ip, step),
             step = "byId" => form # "bare"
      PROVE  OwnInv'
  <2> DEFINE k == [Idle(c) EXCEPT !.at = step, !.op = op, !.form = form, !.ip = ip]
  <2>1. Become(c, k) /\ Peer[c] \in Hosts /\ ReadOnly /\ ip \in Home[Peer[c]]
    BY <1>1, <1>2 DEF Connect, MayOpen
  <2>2. /\ k \in Conn /\ k.host = Peer[c] /\ k.at = step /\ k.ip = ip /\ k.op = op
        /\ k.form = form /\ k.copy = NoRow
    BY <1>1 DEF Idle, Conn, Steps, Ops
  <2>3. Placed(k)
    BY <1>2, <2>1, <2>2, NullAssumption DEF Placed
  <2> QED
    BY <2>1, <2>2, <2>3, ReadKeeps
<1>3. CASE KeepaliveArrives(c) \/ RegisterArrives(c) \/ PinArrives(c)
  BY <1>2, <1>3, HostAssumption
  DEF KeepaliveArrives, RegisterArrives, PinArrives, HeardAsPin, Ops
<1>4. CASE AnnounceArrives(c)
  <2>1. PICK ip \in Home[Peer[c]] \cup {NoIp} :
            Become(c, [Idle(c) EXCEPT !.at = "byId", !.op = "announce", !.ip = ip])
    BY <1>4 DEF AnnounceArrives
  <2> DEFINE k == [Idle(c) EXCEPT !.at = "byId", !.op = "announce", !.ip = ip]
  <2>2. Peer[c] \in Hosts /\ ip \in Ips \cup {NoIp} /\ ReadOnly
    BY <1>1, <1>4, HostAssumption DEF AnnounceArrives, MayOpen
  <2>3. /\ k \in Conn /\ k.host = Peer[c] /\ k.at = "byId" /\ k.op = "announce"
        /\ k.form = "full" /\ k.ip = ip /\ k.copy = NoRow
    BY <1>1, <2>2 DEF Idle, Conn, Steps, Ops
  <2>4. Placed(k)
    BY <2>2, <2>3 DEF Placed
  <2> QED
    BY <2>1, <2>2, <2>3, <2>4, ReadKeeps
<1>5. ASSUME NEW op \in {"delete", "update"}, NEW step \in {"delete", "columns"},
             AdminLoads(c, op, step)
      PROVE  OwnInv'
  <2>1. PICK r \in Rows :
          \/ /\ devices[r] # NoRow
             /\ Become(c, [Idle(c) EXCEPT !.at = step, !.op = op, !.row = r, !.copy = devices[r]])
          \/ Become(c, [Idle(c) EXCEPT !.at = "done", !.op = op, !.answer = "ERROR"])
    BY <1>5 DEF AdminLoads
  <2> DEFINE j == [Idle(c) EXCEPT !.at = step, !.op = op, !.row = r, !.copy = devices[r]]
             k == [Idle(c) EXCEPT !.at = "done", !.op = op, !.answer = "ERROR"]
  <2>2. ReadOnly
    BY <1>5 DEF AdminLoads
  <2>3. CASE devices[r] # NoRow /\ Become(c, j)
    <3>1. devices[r] \in Device
      BY <1>1, <2>3 DEF Tables
    <3>2. j \in Conn /\ j.op = op /\ j.row = r /\ j.copy = devices[r]
      BY <1>1, <3>1 DEF Idle, Conn, Steps, Ops
    <3>3. Placed(j)
      BY <3>2 DEF Placed
    <3> QED
      BY <2>2, <2>3, <3>1, <3>2, <3>3, ReadKeeps
  <2>4. CASE Become(c, k)
    <3>1. k \in Conn /\ k.at = "done" /\ k.copy = NoRow
      BY <1>1 DEF Idle, Conn, Steps, Ops, Answers
    <3>2. Placed(k)
      BY <3>1 DEF Placed
    <3> QED
      BY <2>2, <2>4, <3>1, <3>2, ReadKeeps
  <2> QED
    BY <2>1, <2>3, <2>4
<1>6. CASE DeleteArrives(c) \/ UpdateArrives(c)
  BY <1>5, <1>6 DEF DeleteArrives, UpdateArrives
<1> QED
  BY <1>3, <1>4, <1>6 DEF Arrival

\* The steps of a handler.
LEMMA HandlerOwn ==
    ASSUME Separated, Inv, OwnInv, NEW c \in Conns, Handler(c)
    PROVE  OwnInv'
<1>1. /\ devices \in Tables /\ conns[c] \in Conn /\ Locals(c) /\ Placed(conns[c])
      /\ Idle(c) \in Conn
  BY IdleType DEF Inv, TypeInv, TypeOK, OwnInv
<1>2. ASSUME NEW answer \in Answers, Finish(c, answer), ReadOnly
      PROVE  OwnInv'
  <2> DEFINE k == [Idle(c) EXCEPT !.at = "done", !.op = conns[c].op, !.answer = answer]
  <2>1. conns[c].op \in Ops
    BY <1>1 DEF Conn
  <2>2. k \in Conn /\ k.at = "done" /\ k.copy = NoRow
    BY <1>1, <2>1 DEF Idle, Conn, Steps
  <2>3. Placed(k) /\ Become(c, k)
    BY <1>2, <2>2 DEF Placed, Finish
  <2> QED
    BY <1>2, <2>2, <2>3, ReadKeeps
\* A row of the machine is found, edited and held.
<1>3. ASSUME conns[c].at \in {"byId", "byIp", "byName"},
             conns[c].op \notin {"delete", "update"},
             NEW step \in {"save", "columns"}, NEW r \in Rows, NEW d \in Device,
             NEW answer \in Answers, ReadOnly,
             devices[r] \in Device, OwnedBy(devices[r], conns[c].host),
             OwnedBy(d, conns[c].host),
             Become(c, [conns[c] EXCEPT !.at = step, !.row = r, !.copy = d, !.answer = answer])
      PROVE  OwnInv'
  <2> DEFINE k == [conns[c] EXCEPT !.at = step, !.row = r, !.copy = d, !.answer = answer]
  <2>1. /\ k \in Conn /\ k.host = conns[c].host /\ k.form = conns[c].form
        /\ k.ip = conns[c].ip /\ k.op = conns[c].op /\ k.row = r /\ k.copy = d /\ k.at = step
    BY <1>1 DEF Conn, Steps
  <2>2. conns[c].host \in Hosts /\ conns[c].ip \in Home[conns[c].host] \cup {NoIp}
    BY <1>1, <1>3 DEF Placed
  <2>3. \A h \in Hosts : OwnedBy(devices[r], h) => OwnedBy(d, h)
    BY <1>3, <2>2, OwnerUnique
  <2>4. Placed(k)
    BY <1>3, <2>1, <2>2 DEF Placed
  <2> QED
    BY <1>3, <2>1, <2>3, <2>4, ReadKeeps
<1>4. ASSUME conns[c].at \in {"byId", "byIp", "byName"},
             conns[c].op \notin {"delete", "update"},
             NEW step \in {"save", "columns"}, NEW r \in Rows, NEW d \in Device, ReadOnly,
             devices[r] \in Device, OwnedBy(devices[r], conns[c].host),
             OwnedBy(d, conns[c].host), Hold(c, r, d, step)
      PROVE  OwnInv'
  <2>1. conns[c].answer \in Answers
    BY <1>1 DEF Conn
  <2>2. [conns[c] EXCEPT !.at = step, !.row = r, !.copy = d]
          = [conns[c] EXCEPT !.at = step, !.row = r, !.copy = d, !.answer = conns[c].answer]
    BY <1>1 DEF Conn
  <2>3. Become(c, [conns[c] EXCEPT !.at = step, !.row = r, !.copy = d,
                                   !.answer = conns[c].answer])
    BY <1>4, <2>2 DEF Hold
  <2> QED
    BY <1>3, <1>4, <2>1, <2>3
\* Nothing is found and the next lookup follows.
<1>5. ASSUME conns[c].at \in {"byId", "byIp", "byName"},
             conns[c].op \notin {"delete", "update"},
             NEW step \in {"byId", "byIp", "byName", "create"}, NEW answer \in Answers,
             step = "byId" => conns[c].form # "bare",
             step = "byIp" => conns[c].ip # NoIp,
             conns[c].copy = NoRow, ReadOnly,
             Become(c, [conns[c] EXCEPT !.at = step, !.answer = answer])
      PROVE  OwnInv'
  <2> DEFINE k == [conns[c] EXCEPT !.at = step, !.answer = answer]
  <2>1. /\ k \in Conn /\ k.host = conns[c].host /\ k.form = conns[c].form
        /\ k.ip = conns[c].ip /\ k.op = conns[c].op /\ k.at = step /\ k.copy = NoRow
    BY <1>1, <1>5 DEF Conn, Steps
  <2>2. conns[c].host \in Hosts /\ conns[c].ip \in Home[conns[c].host] \cup {NoIp}
    BY <1>1, <1>5 DEF Placed
  <2>3. Placed(k)
    BY <1>5, <2>1, <2>2 DEF Placed
  <2> QED
    BY <1>5, <2>1, <2>3, ReadKeeps
<1>6. ASSUME conns[c].at \in {"byId", "byIp", "byName"},
             conns[c].op \notin {"delete", "update"},
             NEW step \in {"byId", "byIp", "byName", "create"},
             step = "byId" => conns[c].form # "bare",
             step = "byIp" => conns[c].ip # NoIp,
             ReadOnly, GoTo(c, step)
      PROVE  OwnInv'
  <2>1. conns[c].answer \in Answers /\ conns[c].copy = NoRow
    BY <1>1, <1>6 DEF Conn, Placed
  <2>2. [conns[c] EXCEPT !.at = step] = [conns[c] EXCEPT !.at = step, !.answer = conns[c].answer]
    BY <1>1 DEF Conn
  <2>3. Become(c, [conns[c] EXCEPT !.at = step, !.answer = conns[c].answer])
    BY <1>6, <2>2 DEF GoTo
  <2> QED
    BY <1>5, <1>6, <2>1, <2>3
<1>7. ASSUME NEW answer \in Answers, conns[c].at = "save",
             conns[c].op \notin {"delete", "update"},
             devices' = Saved(devices, conns[c].row, conns[c].copy),
             Environment, Finish(c, answer)
      PROVE  OwnInv'
  <2> DEFINE r == conns[c].row
             e == conns[c].copy
  <2>1. r \in Rows /\ e \in Device
    BY <1>1, <1>7 DEF Locals
  <2>2. e \in Holders(r)
    BY <2>1 DEF Holders
  <2>3. devices' = devices \/ devices' = [devices EXCEPT ![r] = e]
    BY <1>7 DEF Saved
  <2> QED
    BY <1>7, <2>1, <2>2, <2>3, WriteKeeps
<1>8. NoAnswer \in Answers /\ "OK" \in Answers /\ "ERROR" \in Answers /\ "PIN" \in Answers
  BY DEF Answers
<1>9. \A r, S : IsFirst(r, S) => r \in S
  BY DEF IsFirst
<1>10. ASSUME conns[c].op \notin {"delete", "update"}, conns[c].host \in Hosts,
              NEW r \in Rows,
              \/ conns[c].at = "byId" /\ IsFirst(r, ById(conns[c]))
              \/ conns[c].at = "byIp" /\ IsFirst(r, ByIp(conns[c]))
              \/ conns[c].at = "byName" /\ IsFirst(r, ByName(conns[c]))
       PROVE  devices[r] \in Device /\ OwnedBy(devices[r], conns[c].host)
  <2>1. \/ r \in ById(conns[c]) /\ conns[c].form # "bare"
        \/ r \in ByIp(conns[c]) /\ conns[c].ip \in Home[conns[c].host]
        \/ r \in ByName(conns[c])
    BY <1>1, <1>9, <1>10 DEF Placed
  <2> QED
    BY <1>10, <2>1, FoundOwned
<1>11. ASSUME conns[c].op \notin {"delete", "update"}, conns[c].host \in Hosts,
              conns[c].at \in {"byId", "byIp", "byName"},
              NEW d \in Device, OwnedBy(d, conns[c].host)
       PROVE  /\ OwnedBy(KeepaliveEdit(conns[c], d), conns[c].host)
              /\ OwnedBy(ReinstallEdit(conns[c], d), conns[c].host)
              /\ OwnedBy(MovedEdit(conns[c], d), conns[c].host)
              /\ OwnedBy([d EXCEPT !.status = "Online"], conns[c].host)
  <2>1. conns[c].ip \in Home[conns[c].host] \cup {NoIp}
    BY <1>1, <1>11 DEF Placed
  <2> QED
    BY <1>1, <1>11, <2>1, EditsOwned
<1>12. CASE KeepaliveById(c) \/ KeepaliveByIp(c)
  <2>1. /\ conns[c].at \in {"byId", "byIp"} /\ conns[c].op = "keepalive" /\ ReadOnly
        /\ conns[c].host \in Hosts /\ conns[c].ip \in Ips
    BY <1>1, <1>12 DEF KeepaliveById, KeepaliveByIp, At, Locals
  <2>2. CASE Finish(c, NoAnswer)
    BY <1>2, <1>8, <2>1, <2>2
  <2>3. CASE GoTo(c, "byIp")
    BY <1>6, <2>1, <2>3, NullAssumption
  <2>4. CASE ~Finish(c, NoAnswer) /\ ~GoTo(c, "byIp")
    <3>1. PICK r \in Rows :
            /\ \/ conns[c].at = "byId" /\ IsFirst(r, ById(conns[c]))
               \/ conns[c].at = "byIp" /\ IsFirst(r, ByIp(conns[c]))
            /\ Hold(c, r, KeepaliveEdit(conns[c], devices[r]), "save")
      BY <1>12, <2>4 DEF KeepaliveById, KeepaliveByIp, At
    <3>2. devices[r] \in Device /\ OwnedBy(devices[r], conns[c].host)
      BY <1>10, <2>1, <3>1
    <3>3. /\ KeepaliveEdit(conns[c], devices[r]) \in Device
          /\ OwnedBy(KeepaliveEdit(conns[c], devices[r]), conns[c].host)
      BY <1>1, <1>11, <2>1, <3>2, EditsType
    <3> QED
      BY <1>4, <2>1, <3>1, <3>2, <3>3
  <2> QED
    BY <2>2, <2>3, <2>4
<1>13. CASE KeepaliveSave(c) \/ RegisterSave(c) \/ PinSave(c)
  <2>1. /\ conns[c].at = "save" /\ conns[c].op \notin {"delete", "update"}
        /\ devices' = Saved(devices, conns[c].row, conns[c].copy) /\ Environment
        /\ Finish(c, NoAnswer) \/ Finish(c, "PIN") \/ Finish(c, conns[c].answer)
    BY <1>13 DEF KeepaliveSave, RegisterSave, PinSave, At
  <2>2. conns[c].answer \in Answers
    BY <1>1 DEF Conn
  <2> QED
    BY <1>7, <1>8, <2>1, <2>2
<1>14. CASE PinByIp(c)
  <2>1. conns[c].at = "byIp" /\ conns[c].op = "pin" /\ ReadOnly /\ conns[c].host \in Hosts
    BY <1>1, <1>14 DEF PinByIp, At, Locals
  <2>2. CASE Finish(c, NoAnswer)
    BY <1>2, <1>8, <2>1, <2>2
  <2>3. CASE ~Finish(c, NoAnswer)
    <3>1. PICK r \in Rows :
            /\ IsFirst(r, ByIp(conns[c]))
            /\ Become(c, [conns[c] EXCEPT !.at = "save", !.row = r, !.answer = "PIN",
                                          !.copy = [devices[r] EXCEPT !.status = "Online"]])
      BY <1>14, <2>3 DEF PinByIp
    <3> DEFINE d == [devices[r] EXCEPT !.status = "Online"]
    <3>2. devices[r] \in Device /\ OwnedBy(devices[r], conns[c].host)
      BY <1>10, <2>1, <3>1
    <3>3. d \in Device
      BY <3>2 DEF Device, Status
    <3>4. OwnedBy(d, conns[c].host)
      BY <1>11, <2>1, <3>2
    <3>5. [conns[c] EXCEPT !.at = "save", !.row = r, !.answer = "PIN", !.copy = d]
            = [conns[c] EXCEPT !.at = "save", !.row = r, !.copy = d, !.answer = "PIN"]
      BY <1>1 DEF Conn
    <3>6. Become(c, [conns[c] EXCEPT !.at = "save", !.row = r, !.copy = d, !.answer = "PIN"])
      BY <3>1, <3>5
    <3> HIDE DEF d
    <3> QED
      BY <1>3, <1>8, <2>1, <3>2, <3>3, <3>4, <3>6
  <2> QED
    BY <2>2, <2>3
<1>15. CASE RegisterByIp(c)
  <2>1. conns[c].at = "byIp" /\ conns[c].op = "register" /\ ReadOnly /\ conns[c].host \in Hosts
    BY <1>1, <1>15 DEF RegisterByIp, At, Locals
  <2>2. CASE Finish(c, NoAnswer) \/ Finish(c, "ERROR")
    BY <1>2, <1>8, <2>1, <2>2
  <2>3. CASE GoTo(c, "byId") /\ conns[c].form = "full"
    BY <1>6, <2>1, <2>3
  <2>4. ASSUME NEW r \in Rows, IsFirst(r, ByIp(conns[c])),
               Hold(c, r, ReinstallEdit(conns[c], devices[r]), "save")
        PROVE  OwnInv'
    <3>1. devices[r] \in Device /\ OwnedBy(devices[r], conns[c].host)
      BY <1>10, <2>1, <2>4
    <3>2. /\ ReinstallEdit(conns[c], devices[r]) \in Device
          /\ OwnedBy(ReinstallEdit(conns[c], devices[r]), conns[c].host)
      BY <1>1, <1>11, <2>1, <3>1, EditsType
    <3> QED
      BY <1>4, <2>1, <2>4, <3>1, <3>2
  <2> QED
    BY <1>15, <2>2, <2>3, <2>4 DEF RegisterByIp
<1>16. CASE RegisterById(c)
  <2>1. /\ conns[c].at = "byId" /\ conns[c].op = "register" /\ ReadOnly
        /\ conns[c].host \in Hosts /\ conns[c].ip \in Ips /\ conns[c].copy = NoRow
    BY <1>1, <1>16 DEF RegisterById, At, Locals, Placed
  <2>2. CASE Finish(c, "ERROR")
    BY <1>2, <1>8, <2>1, <2>2
  <2>3. CASE Become(c, [conns[c] EXCEPT !.at = "create", !.answer = "OK"])
    BY <1>5, <1>8, <2>1, <2>3
  <2>4. ASSUME NEW r \in Rows, IsFirst(r, ById(conns[c])),
               Become(c, [conns[c] EXCEPT !.at = "save", !.row = r, !.answer = "OK",
                                          !.copy = MovedEdit(conns[c], devices[r])])
        PROVE  OwnInv'
    <3> DEFINE d == MovedEdit(conns[c], devices[r])
    <3>1. devices[r] \in Device /\ OwnedBy(devices[r], conns[c].host)
      BY <1>10, <2>1, <2>4
    <3>2. d \in Device /\ OwnedBy(d, conns[c].host)
      BY <1>1, <1>11, <2>1, <3>1, EditsType
    <3>3. [conns[c] EXCEPT !.at = "save", !.row = r, !.answer = "OK", !.copy = d]
            = [conns[c] EXCEPT !.at = "save", !.row = r, !.copy = d, !.answer = "OK"]
      BY <1>1 DEF Conn
    <3>4. Become(c, [conns[c] EXCEPT !.at = "save", !.row = r, !.copy = d, !.answer = "OK"])
      BY <2>4, <3>3
    <3> HIDE DEF d
    <3> QED
      BY <1>3, <1>8, <2>1, <3>1, <3>2, <3>4
  <2> QED
    BY <1>16, <2>2, <2>3, <2>4 DEF RegisterById
<1>17. CASE RegisterCreate(c) \/ AnnounceCreate(c)
  <2>1. /\ conns[c].at = "create" /\ conns[c].op \in {"register", "announce"}
        /\ Environment /\ Finish(c, "OK")
    BY <1>17 DEF RegisterCreate, AnnounceCreate, At
  <2>2. conns[c].host \in Hosts /\ conns[c].ip \in Home[conns[c].host] \cup {NoIp}
    BY <1>1, <2>1 DEF Placed
  <2>3. SentPw(conns[c]) \in {conns[c].host, NoPw}
    BY DEF SentPw
  <2>4. PICK r \in Fresh, pw \in {conns[c].host, NoPw}, status \in Status :
            devices' = Created(devices, r, NewDevice(conns[c], pw, status))
    BY <1>17, <2>3 DEF RegisterCreate, AnnounceCreate, Status
  <2> DEFINE e == NewDevice(conns[c], pw, status)
  <2>5. e \in Device
    BY <1>1, <2>2, NewDeviceType
  <2>6. OwnedBy(e, conns[c].host)
    <3>1. SentId(conns[c]) \in {conns[c].host, NoId}
      BY DEF SentId
    <3> QED
      BY <2>2, <3>1 DEF NewDevice, OwnedBy
  <2>7. devices' = devices \/ devices' = [devices EXCEPT ![r] = e]
    BY <2>4 DEF Created
  <2> HIDE DEF e
  <2> QED
    BY <1>8, <2>1, <2>2, <2>5, <2>6, <2>7, CreateKeeps
<1>18. CASE AnnounceById(c) \/ AnnounceByIp(c) \/ AnnounceByName(c)
  <2>1. /\ conns[c].at \in {"byId", "byIp", "byName"} /\ conns[c].op = "announce" /\ ReadOnly
    BY <1>18 DEF AnnounceById, AnnounceByIp, AnnounceByName, AnnounceLookup, At
  <2>2. conns[c].host \in Hosts
    BY <1>1, <2>1 DEF Locals
  <2>3. ASSUME NEW step \in {"byIp", "byName", "create"}, GoTo(c, step),
               step = "byIp" => conns[c].ip # NoIp
        PROVE  OwnInv'
    BY <1>6, <2>1, <2>3
  <2>4. ASSUME NEW r \in Rows, Hold(c, r, devices[r], "columns"),
               \/ conns[c].at = "byId" /\ IsFirst(r, ById(conns[c]))
               \/ conns[c].at = "byIp" /\ IsFirst(r, ByIp(conns[c]))
               \/ conns[c].at = "byName" /\ IsFirst(r, ByName(conns[c]))
        PROVE  OwnInv'
    <3>1. devices[r] \in Device /\ OwnedBy(devices[r], conns[c].host)
      BY <1>10, <2>1, <2>2, <2>4
    <3> QED
      BY <1>4, <2>1, <2>4, <3>1
  <2> QED
    BY <1>18, <2>3, <2>4 DEF AnnounceById, AnnounceByIp, AnnounceByName, AnnounceLookup, At
<1>19. CASE AnnounceUpdate(c)
  <2> DEFINE r == conns[c].row
             e == Announced(conns[c], devices[r])
  <2>1. /\ conns[c].at = "columns" /\ conns[c].op = "announce"
        /\ Environment /\ Finish(c, "OK")
    BY <1>19 DEF AnnounceUpdate, At
  <2>2. /\ r \in Rows /\ conns[c].copy \in Device /\ conns[c].host \in Hosts
        /\ conns[c].form = "full"
        /\ conns[c].ip \in Home[conns[c].host] \cup {NoIp}
        /\ OwnedBy(conns[c].copy, conns[c].host)
    BY <1>1, <2>1 DEF Locals, Placed
  <2>3. CASE devices[r] = NoRow
    <3>1. devices' = devices
      BY <1>19, <2>3 DEF AnnounceUpdate
    <3> QED
      BY <1>8, <2>1, <2>2, <3>1, WriteKeeps
  <2>4. CASE devices[r] # NoRow
    <3>1. devices[r] \in Device
      BY <1>1, <2>2, <2>4 DEF Tables
    <3>2. conns[c].copy \in Holders(r) /\ devices[r] \in Holders(r)
      BY <2>2, <3>1 DEF Holders
    <3>3. ASSUME NEW h \in Hosts, \A d \in Holders(r) : OwnedBy(d, h)
          PROVE  OwnedBy(e, h)
      <4>1. h = conns[c].host
        BY <2>2, <3>2, <3>3, OwnerUnique
      <4> QED
        BY <1>1, <2>2, <3>1, <3>2, <3>3, <4>1, EditsOwned
    <3>4. e \in Device
      BY <1>1, <2>2, <3>1, EditsType
    <3>5. devices' = devices \/ devices' = [devices EXCEPT ![r] = e]
      BY <1>19, <2>4 DEF AnnounceUpdate, Saved
    <3> HIDE DEF e
    <3> QED
      BY <1>8, <2>1, <2>2, <3>3, <3>4, <3>5, WriteKeeps
  <2> QED
    BY <2>3, <2>4
<1>20. CASE DeleteRow(c)
  <2>1. /\ conns[c].row \in Rows /\ Environment /\ Finish(c, "OK")
        /\ devices' = [devices EXCEPT ![conns[c].row] = NoRow]
    BY <1>1, <1>20 DEF DeleteRow, At, Locals
  <2> QED
    BY <1>8, <2>1, WriteKeeps
<1>21. CASE UpdateIp(c)
  <2> DEFINE r == conns[c].row
  <2>1. /\ Environment /\ Finish(c, "OK") /\ r \in Rows /\ conns[c].copy \in Device
    BY <1>1, <1>21 DEF UpdateIp, At, Locals
  <2>2. PICK o \in Hosts : \E ip \in Home[o] :
            /\ HostName[o] = conns[c].copy.name
            /\ devices' = IF devices[r] = NoRow THEN devices
                          ELSE [devices EXCEPT ![r].ip = ip]
    BY <1>21 DEF UpdateIp
  <2>3. PICK ip \in Home[o] :
            devices' = IF devices[r] = NoRow THEN devices
                       ELSE [devices EXCEPT ![r].ip = ip]
    BY <2>2
  <2>4. CASE devices[r] = NoRow
    <3>1. devices' = devices
      BY <2>3, <2>4
    <3> QED
      BY <1>8, <2>1, <3>1, WriteKeeps
  <2>5. CASE devices[r] # NoRow
    <3> DEFINE e == [devices[r] EXCEPT !.ip = ip]
    <3>1. devices[r] \in Device /\ ip \in Ips
      BY <1>1, <2>1, <2>5, HostAssumption DEF Tables
    <3>2. conns[c].copy \in Holders(r) /\ devices[r] \in Holders(r)
      BY <2>1, <3>1 DEF Holders
    <3>3. ASSUME NEW h \in Hosts, \A d \in Holders(r) : OwnedBy(d, h)
          PROVE  OwnedBy(e, h)
      <4>1. h = o
        BY <2>2, <3>2, <3>3, OwnerKnown
      <4> QED
        BY <3>1, <3>2, <3>3, <4>1 DEF OwnedBy, Device
    <3>4. e \in Device
      BY <3>1 DEF Device
    <3>5. devices' = [devices EXCEPT ![r] = e]
      BY <2>3, <2>5
    <3> HIDE DEF e
    <3> QED
      BY <1>8, <2>1, <3>3, <3>4, <3>5, WriteKeeps
  <2> QED
    BY <2>4, <2>5
<1>22. CASE Close(c)
  <2>1. Become(c, Idle(c)) /\ ReadOnly
    BY <1>22 DEF Close
  <2>2. Idle(c).copy = NoRow /\ Idle(c).at = "idle"
    BY DEF Idle
  <2>3. Placed(Idle(c))
    BY <2>2 DEF Placed
  <2> QED
    BY <1>1, <2>1, <2>2, <2>3, ReadKeeps
<1> QED
  BY <1>12, <1>13, <1>14, <1>15, <1>16, <1>17, <1>18, <1>19, <1>20, <1>21, <1>22 DEF Handler

\* The monitor, time, machines and the process: whatever they write or keep
\* is, but for its age and status, what was already held.
LEMMA SystemOwn ==
    ASSUME Inv, OwnInv,
           \/ SweepStart \/ (\E r \in Rows : SweepRow(r)) \/ Tick \/ Restart
           \/ \E h \in Hosts : SwitchOff(h) \/ SwitchOn(h)
    PROVE  OwnInv'
<1>1. devices \in Tables /\ conns \in [Conns -> Conn] /\ sweep \in Tables
  BY DEF Inv, TypeInv, TypeOK
\* What is held afterwards looks like what was held before.
<1>2. ASSUME \A r \in Rows : \A d \in Holders(r)' : \E e \in Holders(r) :
                 d.ip = e.ip /\ d.deviceId = e.deviceId /\ d.pw = e.pw /\ d.name = e.name
      PROVE  OneOwner'
  BY <1>2 DEF OwnInv, OneOwner, OwnedBy
<1>3. CASE SweepStart
  <2>1. \A r \in Rows : Holders(r)' \subseteq Holders(r)
    BY <1>3, NullAssumption DEF SweepStart, Holders
  <2> QED
    BY <1>2, <1>3, <2>1 DEF OwnInv, SweepStart
<1>4. ASSUME NEW q \in Rows, SweepRow(q)
      PROVE  OwnInv'
  <2> DEFINE f == [sweep[q] EXCEPT !.status = "Offline"]
  <2>1. sweep[q] \in Device /\ sweep[q] \in Holders(q)
    BY <1>1, <1>4 DEF SweepRow, Tables, Holders
  <2>2. /\ f.ip = sweep[q].ip /\ f.deviceId = sweep[q].deviceId
        /\ f.pw = sweep[q].pw /\ f.name = sweep[q].name
    BY <2>1 DEF Device
  <2>3. devices' = devices \/ devices' = [devices EXCEPT ![q] = f]
    BY <1>4 DEF SweepRow, Saved
  <2> HIDE DEF f
  <2>4. \A r \in Rows : /\ devices'[r] = devices[r] \/ (r = q /\ devices'[r] = f)
                        /\ sweep'[r] = sweep[r] \/ sweep'[r] = NoRow
    BY <1>1, <1>4, <2>3 DEF SweepRow, Tables
  <2>5. \A r \in Rows : \A d \in Holders(r)' : d \in Holders(r) \/ (r = q /\ d = f)
    BY <1>4, <2>4, NullAssumption DEF Holders, SweepRow
  <2>6. OneOwner'
    BY <1>2, <2>1, <2>2, <2>5
  <2> QED
    BY <1>4, <2>6 DEF OwnInv, SweepRow
<1>5. CASE Tick
  <2>1. \A r \in Rows : devices'[r] = Older(devices[r]) /\ sweep'[r] = Older(sweep[r])
    BY <1>5 DEF Tick
  <2>2. ASSUME NEW c \in Conns
        PROVE  /\ conns'[c].copy = Older(conns[c].copy) /\ conns'[c].row = conns[c].row
               /\ conns'[c].at = conns[c].at /\ conns'[c].op = conns[c].op
               /\ conns'[c].host = conns[c].host /\ conns'[c].ip = conns[c].ip
               /\ conns'[c].form = conns[c].form
    <3>1. conns'[c] = [conns[c] EXCEPT !.copy = Older(conns[c].copy)]
      BY <1>5 DEF Tick
    <3> QED
      BY <1>1, <3>1 DEF Conn
  <2>3. ASSUME NEW r \in Rows, NEW d \in Holders(r)'
        PROVE  \E e \in Holders(r) :
                 d.ip = e.ip /\ d.deviceId = e.deviceId /\ d.pw = e.pw /\ d.name = e.name
    <3>1. d \in Device /\ d # NoRow
      BY <2>3, NullAssumption DEF Holders
    <3>2. \/ d = Older(devices[r]) \/ d = Older(sweep[r])
          \/ \E c \in Conns : conns[c].row = r /\ d = Older(conns[c].copy)
      BY <2>1, <2>2, <2>3 DEF Holders
    <3>3. /\ devices[r] \in Device \cup {NoRow} /\ sweep[r] \in Device \cup {NoRow}
          /\ \A c \in Conns : conns[c].copy \in Device \cup {NoRow}
      BY <1>1 DEF Tables, Conn
    <3>4. PICK e \in Device :
            /\ d = Older(e)
            /\ \/ e = devices[r] \/ e = sweep[r]
               \/ \E c \in Conns : conns[c].row = r /\ e = conns[c].copy
      BY <3>1, <3>2, <3>3, OlderNone
    <3>5. e \in Holders(r)
      BY <3>4 DEF Holders
    <3> QED
      BY <3>4, <3>5, OlderDevice
  <2>4. OneOwner'
    BY <1>2, <2>3
  <2>5. ASSUME NEW c \in Conns
        PROVE  Placed(conns'[c])
    <3>1. Placed(conns[c]) /\ Locals(c)
      BY DEF OwnInv, Inv, TypeInv
    <3>2. conns[c].copy \in Device =>
              \A h \in Hosts : OwnedBy(conns[c].copy, h) => OwnedBy(conns'[c].copy, h)
      BY <2>2, OlderDevice DEF OwnedBy
    <3>3. conns[c].copy = NoRow => conns'[c].copy = NoRow
      BY <2>2, OlderNone
    <3> QED
      BY <2>2, <3>1, <3>2, <3>3 DEF Placed, Locals
  <2> QED
    BY <2>4, <2>5 DEF OwnInv
<1>6. CASE Restart
  <2>1. \A c \in Conns : conns'[c] = Idle(c)
    BY <1>6 DEF Restart
  <2>2. \A c \in Conns : Idle(c).at = "idle" /\ Idle(c).copy = NoRow
    BY DEF Idle
  <2>3. \A r \in Rows : Holders(r)' \subseteq Holders(r)
    BY <1>6, <2>1, <2>2, NullAssumption DEF Holders, Restart
  <2>4. \A c \in Conns : Placed(conns'[c])
    BY <2>1, <2>2 DEF Placed
  <2> QED
    BY <1>2, <2>3, <2>4 DEF OwnInv
<1>7. CASE \E h \in Hosts : SwitchOff(h) \/ SwitchOn(h)
  <2>1. UNCHANGED <<devices, conns, sweep>>
    BY <1>7 DEF SwitchOff, SwitchOn
  <2> QED
    BY <2>1 DEF OwnInv, OneOwner, Holders, Placed
<1> QED
  BY <1>3, <1>4, <1>5, <1>6, <1>7

-----------------------------------------------------------------------------

\* Where addresses and hostnames tell machines apart, no interleaving of the
\* handlers of monitor.go and device_info.go, of the sweep and of restarts
\* stores a row that mixes two machines, and handlePin answers a machine with
\* a PIN of its own only.
THEOREM Ownership ==
    ASSUME Separated, LegacyOwned
    PROVE  Spec => [](RowsOwned /\ PinIsOwn)
<1>1. Init => Inv /\ OwnInv
  BY InitInv, InitOwn
<1>2. Inv /\ OwnInv /\ [Next]_vars => (Inv /\ OwnInv)'
  <2> SUFFICES ASSUME Inv, OwnInv, [Next]_vars PROVE Inv' /\ OwnInv'
    OBVIOUS
  <2>1. CASE UNCHANGED vars
    <3>1. Inv'
      BY <2>1 DEF vars, Inv, TypeInv, TypeOK, UniqueDeviceId, Unique, Locals
    <3>2. OwnInv'
      BY <2>1 DEF vars, OwnInv, OneOwner, Holders, Placed
    <3> QED
      BY <3>1, <3>2
  <2>2. CASE Next
    BY <2>2, ArrivalInv, HandlerInv, SystemInv, ArrivalOwn, HandlerOwn, SystemOwn DEF Next
  <2> QED
    BY <2>1, <2>2
<1>3. Inv /\ OwnInv => RowsOwned /\ PinIsOwn
  <2> SUFFICES ASSUME Inv, OwnInv PROVE RowsOwned /\ PinIsOwn
    OBVIOUS
  <2>1. \A r \in Rows : devices[r] # NoRow => devices[r] \in Device /\ devices[r] \in Holders(r)
    BY DEF Inv, TypeInv, TypeOK, Tables, Holders
  <2>2. RowsOwned
    BY <2>1 DEF RowsOwned, Live, OwnInv, OneOwner
  <2>3. ASSUME NEW c \in Conns, At(c, "save", "pin"), devices[conns[c].row] # NoRow
        PROVE  OwnedBy(devices[conns[c].row], conns[c].host)
    <3>1. /\ conns[c].row \in Rows /\ conns[c].copy \in Device /\ conns[c].host \in Hosts
          /\ OwnedBy(conns[c].copy, conns[c].host)
      BY <2>3 DEF Inv, TypeInv, Locals, OwnInv, Placed, At
    <3>2. conns[c].copy \in Holders(conns[c].row) /\ devices[conns[c].row] \in Holders(conns[c].row)
      BY <2>1, <2>3, <3>1 DEF Holders
    <3>3. PICK h \in Hosts : \A d \in Holders(conns[c].row) : OwnedBy(d, h)
      BY <3>1 DEF OwnInv, OneOwner
    <3>4. h = conns[c].host
      BY <3>1, <3>2, <3>3, OwnerUnique
    <3> QED
      BY <3>2, <3>3, <3>4
  <2> QED
    BY <2>2, <2>3 DEF PinIsOwn
<1> QED
  BY <1>1, <1>2, <1>3, PTL DEF Spec

\* In particular the PIN that handlePin answers with is the machine's own.
COROLLARY OwnPin ==
    ASSUME Separated, LegacyOwned
    PROVE  Spec => []PinIsOwn
BY Ownership, PTL

-----------------------------------------------------------------------------
(* The other end of the connections: Sunshine's client (BackendClient).    *)

\* The registration runs while start() does, and no thread outlives the process.
Alive ==
    /\ threads["register"].at # "none" <=> main.at = "registering"
    /\ main.at = "off" => \A t \in Threads : threads[t] = NoThread

\* Id and password are known from start() to stop(), and neither is afterwards.
Whole == [id |-> g.id, pw |-> g.pw] \in IF Running THEN Identity ELSE {Blank}

\* A registration names the machine, and a message that is not after the PIN
\* is taken for one only if it contains the word.
Letters ==
    \A m \in inbox : /\ m.kind = "register" => m.text \in Identity
                    /\ \/ m.type = m.kind
                       \/ m.type = "pin" /\ PinWords # {}

\* The inductive invariant of the client.
ClientInv == ClientTypeOK /\ OneDialogue /\ Alive /\ Whole /\ Letters

LEMMA ClientBegins == ClientInit => ClientInv
BY NilAssumption, StartsAssumption
DEF ClientInit, ClientInv, ClientTypeOK, OneDialogue, Alive, Whole, Letters, Running, Off, Cleared,
    NoThread, Blank, Main, Thread, Global, Threads, Replies, Text, Identity

\* The steps of the main thread.
LEMMA MainKept == ClientInv /\ (Start \/ Stop \/ Die) => ClientInv'
<1> SUFFICES ASSUME ClientInv, Start \/ Stop \/ Die PROVE ClientInv'
  OBVIOUS
<1> USE DEF ClientInv, NoThread
<1>1. CASE Start
  <2>1. PICK me \in Identity : \E cache \in {me, Blank} :
          /\ g' = [id |-> me.id, pw |-> me.pw, pin |-> Nil, connected |-> FALSE]
          /\ main' = [at |-> "registering", cache |-> cache]
    BY <1>1 DEF Start
  <2>2. ClientTypeOK'
    BY <1>1, <2>1, StartsAssumption
    DEF Start, ClientTypeOK, Main, Thread, Global, Threads, Text, Identity, Blank
  <2>3. \A m \in inbox : m.to = Nil
    BY <1>1 DEF Start, Alive, OneDialogue, ClientTypeOK, Message
  <2>4. OneDialogue'
    BY <1>1, <2>3 DEF Start, OneDialogue, Threads, Replies
  <2>5. Alive' /\ Whole' /\ Letters'
    BY <1>1, <2>1 DEF Start, Alive, Whole, Letters, Running, Threads, Identity
  <2> QED
    BY <2>2, <2>4, <2>5
<1>2. CASE Stop
  <2>1. ClientTypeOK'
    BY <1>2 DEF Stop, ClientTypeOK, Main, Global, Cleared
  <2>2. OneDialogue' /\ Alive' /\ Whole' /\ Letters'
    BY <1>2 DEF Stop, ClientTypeOK, Main, OneDialogue, Alive, Whole, Letters, Running, Cleared, Blank
  <2> QED
    BY <2>1, <2>2
<1>3. CASE Die
  <2>1. \A m \in inbox : /\ [m EXCEPT !.to = Nil] \in Message
                         /\ [m EXCEPT !.to = Nil].to = Nil
                         /\ [m EXCEPT !.to = Nil].kind = m.kind
                         /\ [m EXCEPT !.to = Nil].type = m.type
                         /\ [m EXCEPT !.to = Nil].text = m.text
    BY DEF ClientTypeOK, Message
  <2>2. ClientTypeOK'
    BY <1>3, <2>1 DEF Die, ClientTypeOK, Main, Thread, Global, Off, Cleared, Text, Blank
  <2>3. ASSUME NEW n \in inbox'
        PROVE  n.to = Nil /\ \E m \in inbox : n.kind = m.kind /\ n.type = m.type /\ n.text = m.text
    <3>1. PICK m \in inbox : n = [m EXCEPT !.to = Nil]
      BY <1>3 DEF Die
    <3> QED
      BY <2>1, <3>1
  <2>4. main' = Off /\ g' = Cleared /\ threads' = [t \in Threads |-> NoThread]
    BY <1>3 DEF Die
  <2>5. OneDialogue'
    BY <2>3, <2>4 DEF OneDialogue, Replies, Threads
  <2>6. Alive' /\ Whole'
    BY <2>4 DEF Alive, Whole, Running, Off, Cleared, Blank, Threads
  <2>7. Letters'
    BY <2>3 DEF Letters
  <2> QED
    BY <2>2, <2>5, <2>6, <2>7
<1> QED
  BY <1>1, <1>2, <1>3

\* The steps of a thread.
LEMMA ThreadKept ==
    ASSUME ClientInv, NEW t \in Threads, ThreadSteps(t)
    PROVE  ClientInv'
<1> USE DEF ClientInv
<1>1. threads \in [Threads -> Thread]
  BY DEF ClientTypeOK
<1>2. CASE t # "register" /\ Wake(t)
  <2>1. ClientTypeOK'
    BY <1>1, <1>2 DEF Wake, ClientTypeOK, Thread
  <2>2. OneDialogue'
    BY <1>1, <1>2 DEF Wake, OneDialogue, Thread, Threads
  <2>3. Alive' /\ Whole' /\ Letters'
    BY <1>1, <1>2 DEF Wake, Alive, Whole, Letters, Running, Thread, Threads, NoThread
  <2> QED
    BY <2>1, <2>2, <2>3
<1>3. CASE Send(t) /\ listening
  <2> DEFINE type(host) == Parsed(t, {Letter(t).id, Letter(t).pw, host})
  <2>0. PICK host : inbox' = inbox \cup {[kind |-> t, type |-> type(host),
                                           text |-> Letter(t), to |-> t]}
    BY <1>3 DEF Send
  <2> DEFINE letter == [kind |-> t, type |-> type(host), text |-> Letter(t), to |-> t]
  <2>1. Letter(t) \in Text /\ (t = "register" => Letter(t) \in Identity)
    <3>1. CASE t = "pin"
      BY <3>1 DEF Letter, Text, Blank
    <3>2. CASE t # "pin" /\ Running
      <4>1. g.id \in Ids /\ g.pw \in Passwords
        BY <3>2 DEF Whole, Identity
      <4>2. Letter(t) = [id |-> g.id, pw |-> g.pw]
        BY <3>2, <4>1, NilAssumption DEF Letter
      <4> QED
        BY <4>1, <4>2 DEF Text, Identity
    <3>3. CASE t # "pin" /\ ~Running
      <4>1. g.id = Nil /\ g.pw = Nil
        BY <3>3 DEF Whole, Blank
      <4>2. Letter(t) = [id |-> main.cache.id, pw |-> main.cache.pw]
        BY <3>3, <4>1 DEF Letter
      <4>3. Letter(t) = main.cache /\ main.cache \in Text
        BY <4>2 DEF ClientTypeOK, Main, Text, Identity
      <4>4. t # "register"
        BY <1>3, <3>3 DEF Alive, Running, Send
      <4> QED
        BY <4>3, <4>4
    <3> QED
      BY <3>1, <3>2, <3>3
  <2>2. /\ letter \in Message /\ letter.kind = t /\ letter.to = t /\ letter.text = Letter(t)
        /\ letter.type = t \/ (letter.type = "pin" /\ PinWords # {})
    <3>1. type(host) = t \/ (type(host) = "pin" /\ PinWords # {})
      BY DEF Parsed
    <3> QED
      BY <2>1, <3>1 DEF Message, Threads
  <2>3. \A m \in inbox : m.to # t
    BY <1>3, NilAssumption DEF Send, OneDialogue
  <2> HIDE DEF letter
  <2>4. inbox' = inbox \cup {letter} /\ threads' = [threads EXCEPT ![t].at = "wait"]
    BY <1>3, <2>0 DEF Send, letter
  <2>5. ClientTypeOK'
    BY <1>1, <1>3, <2>2, <2>4 DEF Send, ClientTypeOK, Thread
  <2>6. \A m \in inbox' : m.to # Nil => m.to = m.kind /\ threads'[m.to].at = "wait"
    BY <1>1, <2>2, <2>3, <2>4 DEF OneDialogue, ClientTypeOK, Message
  <2>7. \A m, n \in inbox' : m.to # Nil /\ m.to = n.to => m = n
    BY <2>2, <2>3, <2>4 DEF OneDialogue
  <2>8. \A u \in Threads : threads'[u].reply \in Replies[u]
    BY <1>1, <2>4 DEF OneDialogue, Thread
  <2>9. Alive' /\ Whole' /\ Letters'
    BY <1>1, <1>3, <2>1, <2>2, <2>4 DEF Send, Alive, Whole, Letters, Running, Thread, Threads, NoThread
  <2> QED
    BY <2>5, <2>6, <2>7, <2>8, <2>9 DEF OneDialogue
<1>4. CASE Send(t) /\ ~listening
  <2>1. threads' = [threads EXCEPT ![t] = [at |-> "heard", reply |-> NoReply]] /\ UNCHANGED inbox
    BY <1>4 DEF Send
  <2>2. ClientTypeOK'
    BY <1>1, <1>4, <2>1 DEF Send, ClientTypeOK, Thread
  <2>3. OneDialogue'
    BY <1>1, <1>4, <2>1 DEF Send, OneDialogue, Replies, Threads, ClientTypeOK, Message
  <2>4. Alive' /\ Whole' /\ Letters'
    BY <1>1, <1>4, <2>1 DEF Send, Alive, Whole, Letters, Running, Threads, NoThread
  <2> QED
    BY <2>2, <2>3, <2>4
<1>5. CASE Hear(t)
  <2>1. Resumes(t) \in Thread /\ Resumes(t).reply = NoReply /\ Resumes(t).at # "heard"
    BY DEF Resumes, NoThread, Thread
  <2>2. threads' = [threads EXCEPT ![t] = Resumes(t)] /\ threads[t].at = "heard"
    BY <1>5 DEF Hear
  <2>3. g' \in Global /\ g'.id = g.id /\ g'.pw = g.pw
    BY <1>1, <1>5 DEF Hear, Noted, Threads, ClientTypeOK, Global
  <2>4. ClientTypeOK'
    BY <1>1, <1>5, <2>1, <2>2, <2>3 DEF Hear, ClientTypeOK, Main
  <2>5. OneDialogue'
    BY <1>1, <1>5, <2>1, <2>2 DEF Hear, OneDialogue, Replies, Threads, ClientTypeOK, Message
  <2>6. Alive'
    BY <1>1, <1>5, <2>1, <2>2 DEF Hear, Alive, Resumes, NoThread, Threads, ClientTypeOK, Main
  <2>7. Running' = Running
    BY <1>5 DEF Hear, Alive, Running, ClientTypeOK, Main
  <2>8. Whole' /\ Letters'
    BY <1>5, <2>3, <2>7 DEF Hear, Whole, Letters
  <2> QED
    BY <2>4, <2>5, <2>6, <2>8
<1> QED
  BY <1>2, <1>3, <1>4, <1>5 DEF ThreadSteps, Send

\* What the backend answers is an answer to the question.
LEMMA HandledType ==
    ASSUME ClientInv, NEW m \in inbox, NEW r \in Row \cup {Nil},
           NEW reply \in {NoReply, "OK"} \cup Pins, Handles(m, r, reply)
    PROVE  reply \in Replies[m.kind]
<1>1. m.kind \in Threads /\ (m.type = m.kind \/ (m.type = "pin" /\ PinWords # {}))
  BY DEF ClientInv, ClientTypeOK, Letters, Message
<1>2. CASE m.type = "pin"
  <2>1. reply \in {NoReply} \cup Pins
    BY <1>2 DEF ClientInv, ClientTypeOK, Handles, Row
  <2> QED
    BY <1>1, <1>2, <2>1 DEF Replies, Diverted, Threads
<1>3. CASE m.type # "pin"
  BY <1>1, <1>3 DEF Handles, Replies, Threads
<1> QED
  BY <1>2, <1>3

\* A message that is served is taken out, and its thread hears the answer.
LEMMA ServedKept ==
    ASSUME ClientInv, NEW m, Serve(m)
    PROVE  ClientInv'
<1> USE DEF ClientInv
<1>1. PICK r \in Row \cup {Nil}, reply \in {NoReply, "OK"} \cup Pins :
        /\ Handles(m, r, reply)
        /\ row' = r
        /\ threads' = IF m.to = Nil THEN threads
                      ELSE [threads EXCEPT ![m.to] = [at |-> "heard", reply |-> reply]]
  BY DEF Serve
<1>2. m \in inbox /\ inbox' = inbox \ {m} /\ UNCHANGED <<main, g, listening, starts>>
  BY DEF Serve
<1>3. reply \in Replies[m.kind]
  BY <1>1, <1>2, HandledType
<1>4. m \in Message /\ threads \in [Threads -> Thread]
  BY <1>2 DEF ClientTypeOK
<1>5. CASE m.to = Nil
  <2>1. ClientTypeOK' /\ OneDialogue' /\ Alive' /\ Whole' /\ Letters'
    BY <1>1, <1>2, <1>5 DEF ClientTypeOK, OneDialogue, Alive, Whole, Letters, Running
  <2> QED
    BY <2>1
<1>6. CASE m.to # Nil
  <2>1. m.to = m.kind /\ m.to \in Threads /\ threads[m.to].at = "wait"
    BY <1>2, <1>4, <1>6 DEF OneDialogue, Message
  <2>2. threads' = [threads EXCEPT ![m.to] = [at |-> "heard", reply |-> reply]]
    BY <1>1, <1>6
  <2>3. ClientTypeOK'
    BY <1>1, <1>2, <1>4, <2>1, <2>2 DEF ClientTypeOK, Thread
  <2>4. \A t \in Threads : threads'[t].reply \in Replies[t]
    BY <1>3, <1>4, <2>1, <2>2 DEF OneDialogue
  <2>5. \A n \in inbox' : n.to # Nil => n.to = n.kind /\ threads'[n.to].at = "wait"
    BY <1>2, <1>4, <1>6, <2>2 DEF OneDialogue, ClientTypeOK, Message
  <2>6. \A n, o \in inbox' : n.to # Nil /\ n.to = o.to => n = o
    BY <1>2 DEF OneDialogue
  <2>7. Alive' /\ Whole' /\ Letters'
    BY <1>2, <1>4, <2>1, <2>2 DEF Alive, Whole, Letters, Running, Threads, NoThread
  <2> QED
    BY <2>3, <2>4, <2>5, <2>6, <2>7 DEF OneDialogue
<1> QED
  BY <1>5, <1>6

\* A message whose path is cut is nobody's.
LEMMA CutKept ==
    ASSUME ClientInv, NEW m \in inbox, Cut(m)
    PROVE  ClientInv'
<1> USE DEF ClientInv
<1> DEFINE orphan == [m EXCEPT !.to = Nil]
<1>1. /\ orphan \in Message /\ orphan.to = Nil /\ orphan.kind = m.kind /\ orphan.text = m.text
      /\ orphan.type = m.type
  BY DEF ClientTypeOK, Message
<1>2. inbox' = (inbox \ {m}) \cup {orphan} /\ UNCHANGED <<main, threads, g, row, listening, starts>>
  BY DEF Cut
<1> HIDE DEF orphan
<1>3. ClientTypeOK'
  BY <1>1, <1>2 DEF ClientTypeOK
<1>4. OneDialogue'
  BY <1>1, <1>2 DEF OneDialogue
<1>5. Alive' /\ Whole' /\ Letters'
  BY <1>1, <1>2 DEF Alive, Whole, Letters, Running
<1> QED
  BY <1>3, <1>4, <1>5

\* The backend forgets the machine, dies and comes back.
LEMMA BackendKept ==
    ASSUME ClientInv, DeleteDevice \/ BackendDies \/ BackendStarts
    PROVE  ClientInv'
<1> USE DEF ClientInv
<1>1. threads \in [Threads -> Thread]
  BY DEF ClientTypeOK
<1>2. CASE DeleteDevice \/ BackendStarts
  BY <1>2 DEF DeleteDevice, BackendStarts, ClientTypeOK, OneDialogue, Alive, Whole, Letters, Running
<1>3. CASE BackendDies
  <2>1. \A t \in Threads : (\E m \in inbox : m.to = t) => threads[t].at = "wait"
    BY NilAssumption DEF OneDialogue
  <2>2. ClientTypeOK'
    BY <1>1, <1>3 DEF BackendDies, ClientTypeOK, Thread
  <2>3. OneDialogue'
    BY <1>3 DEF BackendDies, OneDialogue, Replies, Threads
  <2>4. Alive'
    BY <1>3, <2>1 DEF BackendDies, Alive, Threads, NoThread
  <2>5. Whole' /\ Letters'
    BY <1>3 DEF BackendDies, Whole, Letters, Running
  <2> QED
    BY <2>2, <2>3, <2>4, <2>5
<1> QED
  BY <1>2, <1>3

LEMMA ClientKept == ClientInv /\ [ClientNext]_clientVars => ClientInv'
<1> SUFFICES ASSUME ClientInv, [ClientNext]_clientVars PROVE ClientInv'
  OBVIOUS
<1>1. CASE ClientNext
  BY <1>1, MainKept, ThreadKept, ServedKept, CutKept, BackendKept DEF ClientNext, Served
<1>2. CASE UNCHANGED clientVars
  BY <1>2 DEF clientVars, ClientInv, ClientTypeOK, OneDialogue, Alive, Whole, Letters, Running
<1> QED
  BY <1>1, <1>2

LEMMA ClientAlways == ClientSpec => []ClientInv
BY ClientBegins, ClientKept, PTL DEF ClientSpec

\* The client's variables keep their types.
THEOREM ClientTyped == ClientSpec => []ClientTypeOK
BY ClientAlways, PTL DEF ClientInv

\* Whatever dies, is cut off or is served late, each thread of backend_client.cpp
\* hears the answer to the one question it has asked, or none.  "OK" is for
\* registrations, and a PIN for polls and for what parseMessage takes for one.
THEOREM Dialogues == ClientSpec => []OneDialogue
BY ClientAlways, PTL DEF ClientInv

\* handleRegister never has to refuse: what start() sends is complete, and
\* what does not reach it for the word "pin" is answered as a poll.
THEOREM Answered ==
    ASSUME Pins # {}
    PROVE  ClientSpec => []NoneRefused
<1>1. ClientInv => NoneRefused
  <2> SUFFICES ASSUME ClientInv, NEW m \in inbox
               PROVE  \E r \in Row \cup {Nil}, reply \in Replies[m.kind] : Handles(m, r, reply)
    BY DEF NoneRefused
  <2>1. /\ m \in Message /\ row \in Row \cup {Nil}
        /\ m.type = m.kind \/ (m.type = "pin" /\ PinWords # {})
    BY DEF ClientInv, ClientTypeOK, Letters
  <2>2. CASE m.type = "register" /\ row = Nil
    <3>1. PICK pin \in Pins : TRUE
      OBVIOUS
    <3>2. NewRow(m.text, pin) \in Row
      BY <2>1, <2>2 DEF ClientInv, Letters, Identity, NewRow, Row
    <3>3. Handles(m, NewRow(m.text, pin), "OK")
      BY <2>2 DEF Handles
    <3>4. "OK" \in Replies[m.kind]
      BY <2>1, <2>2 DEF Replies
    <3> QED
      BY <3>2, <3>3, <3>4
  <2>3. CASE m.type = "register" /\ row # Nil
    <3> DEFINE r == [row EXCEPT !.id = m.text.id, !.pw = m.text.pw]
    <3>1. m.text.id \in Ids /\ m.text.pw \in Passwords /\ row \in Row
      BY <2>1, <2>3 DEF ClientInv, Letters, Identity
    <3>2. r \in Row
      BY <3>1 DEF Row
    <3>3. Handles(m, r, NoReply) /\ NoReply \in Replies[m.kind]
      BY <2>1, <2>3 DEF Handles, Replies
    <3> QED
      BY <3>2, <3>3
  <2>4. CASE m.type = "keepalive"
    <3> DEFINE r == IF row = Nil THEN Nil ELSE Refreshed(row, m.text)
    <3>1. r \in Row \cup {Nil}
      BY <2>1, NilAssumption DEF Refreshed, Row, Message, Text, Identity
    <3>2. Handles(m, r, NoReply) /\ NoReply \in Replies[m.kind]
      BY <2>1, <2>4 DEF Handles, Replies
    <3> QED
      BY <3>1, <3>2
  <2>5. CASE m.type = "pin"
    <3> DEFINE reply == IF row = Nil THEN NoReply ELSE row.pin
    <3>1. reply \in Replies[m.kind] /\ Handles(m, row, reply)
      BY <2>1, <2>5 DEF Handles, Replies, Diverted, Row, Message, Threads
    <3> QED
      BY <2>1, <3>1
  <2> QED
    BY <2>1, <2>2, <2>3, <2>4, <2>5 DEF Message, Threads
<1> QED
  BY <1>1, ClientAlways, PTL

\* g_connected is set by a registration that hears OK and by a heartbeat that
\* hears a PIN, which needs a message with "pin" in it: handleKeepalive writes
\* nothing, doKeepalive wants an answer, and so every other heartbeat clears it.
THEOREM StatusTold == ClientSpec => [][StatusStep]_clientVars
<1>1. ClientInv /\ [ClientNext]_clientVars => [StatusStep]_clientVars
  <2> SUFFICES ASSUME ClientInv, ClientNext PROVE StatusStep
    OBVIOUS
  <2>1. \A t \in Threads : threads[t].reply \in Replies[t]
    BY DEF ClientInv, OneDialogue
  <2>2. g \in Global
    BY DEF ClientInv, ClientTypeOK
  <2>3. Hear("keepalive") => (g'.connected => threads["keepalive"].reply \in Diverted)
    BY <2>1, <2>2 DEF Hear, Noted, Threads, Replies, Global
  <2>4. ASSUME g'.connected, ~g.connected
        PROVE  Hear("register") \/ Hear("keepalive")
    <3>1. ~Start /\ ~Stop /\ ~Die
      BY <2>4 DEF Start, Stop, Die, Cleared
    <3>2. g' # g
      BY <2>4
    <3>3. PICK t \in Threads : Hear(t)
      BY <3>1, <3>2
      DEF ClientNext, ThreadSteps, Served, Wake, Send, Serve, Cut, DeleteDevice, BackendDies, BackendStarts
    <3>4. t # "pin"
      BY <2>2, <2>4, <3>3 DEF Hear, Noted, Global
    <3> QED
      BY <3>3, <3>4 DEF Threads
  <2>5. ASSUME Hear("register"), g'.connected
        PROVE  threads["register"] = [at |-> "heard", reply |-> "OK"]
    <3>1. threads["register"] \in Thread /\ threads["register"].at = "heard"
      BY <2>5 DEF Hear, ClientInv, ClientTypeOK, Threads
    <3>2. threads["register"].reply = "OK"
      BY <2>2, <2>5 DEF Hear, Noted, Global
    <3> QED
      BY <3>1, <3>2 DEF Thread
  <2>6. Hear("keepalive") => threads["keepalive"].at = "heard"
    BY DEF Hear
  <2> QED
    BY <2>3, <2>4, <2>5, <2>6 DEF StatusStep
<1> QED
  BY <1>1, ClientAlways, PTL DEF ClientSpec
=============================================================================
