-------------------------- MODULE MCDeviceRegistry --------------------------
(* Small instances of DeviceRegistry. *)
EXTENDS DeviceRegistry

CONSTANTS m1, m2, k1, k2, k3, x, y, z

\* Every machine has addresses of its own; m2 may move between two.
HomeApart == [h \in Hosts |-> IF h = m1 THEN {x} ELSE {y, z}]
HostNames == [h \in Hosts |-> h]

\* Two machines with one request each, or the requests of one machine that
\* overlap, with the administrator's.
PeerEach == [c \in Conns |-> IF c = k1 THEN m1 ELSE IF c = k2 THEN m2 ELSE Admin]
PeerOne  == [c \in Conns |-> IF c = k3 THEN Admin ELSE m1]

SendsEach == [c \in Conns |-> CASE c = k1 -> {"keepalive", "register"}
                                [] c = k2 -> {"keepalive", "register", "pin", "announce"}
                                [] c = k3 -> {"update"}]
SendsOne  == [c \in Conns |-> CASE c = k1 -> {"keepalive", "register"}
                                [] c = k2 -> {"keepalive", "pin"}
                                [] c = k3 -> {"delete", "update"}]

EmptyTable == [r \in Rows |-> NoRow]
\* A row of m2 from before device_id existed.
OldRow == [ip |-> y, deviceId |-> NoId, pw |-> NoPw, name |-> m2,
           status |-> "Offline", age |-> Timeout + 1]
UpgradedTable == [r \in Rows |-> IF r = 2 THEN OldRow ELSE NoRow]

JustEmpty == {EmptyTable}
EmptyOrUpgraded == {EmptyTable, UpgradedTable}

TwoRows == 1 .. 2
FullAndBare == {"full", "bare"}
FullOnly == {"full"}
=============================================================================
