----------------------------- MODULE DeviceOwner -----------------------------
(***************************************************************************)
(* What the backend promises about who owns a device, without tables,      *)
(* statements or goroutines (gorm.go: "the application requires that a     *)
(* device belongs to one user").  A device has at most one owner.  It      *)
(* changes hands only to a user who claimed it while he had an account; an *)
(* administrator gives away only what nobody owns; a device that is taken  *)
(* back belongs to nobody.                                                 *)
(***************************************************************************)
CONSTANTS Devices, Users, Nobody

VARIABLES
    owner,      \* [Devices -> Users \cup {Nobody}]
    accounts,   \* users that exist
    claims      \* claims under way: pairs of a device and a user

Init ==
    /\ owner = [d \in Devices |-> Nobody]
    /\ accounts \subseteq Users
    /\ claims = {}

OpenAccount == accounts' \in SUBSET Users /\ UNCHANGED <<owner, claims>>

\* Claiming may open the account in the same step.
Claim(d, u) ==
    /\ accounts \subseteq accounts'
    /\ accounts' \subseteq accounts \cup {u}
    /\ u \in accounts'
    /\ claims' = claims \cup {<<d, u>>}
    /\ UNCHANGED owner

Withdraw == claims' \in SUBSET claims /\ UNCHANGED <<owner, accounts>>

Take(d, u) ==
    /\ <<d, u>> \in claims
    /\ owner' = [owner EXCEPT ![d] = u]
    /\ claims' \in SUBSET claims
    /\ UNCHANGED accounts

GiveOut(d, u) ==
    /\ owner[d] = Nobody
    /\ owner' = [owner EXCEPT ![d] = u]
    /\ UNCHANGED <<accounts, claims>>

TakeBack(D) ==
    /\ owner' = [d \in Devices |-> IF d \in D THEN Nobody ELSE owner[d]]
    /\ UNCHANGED <<accounts, claims>>

Next ==
    \/ OpenAccount \/ Withdraw
    \/ \E d \in Devices, u \in Users : Claim(d, u) \/ Take(d, u) \/ GiveOut(d, u)
    \/ \E D \in SUBSET Devices : TakeBack(D)

Spec == Init /\ [][Next]_<<owner, accounts, claims>>
=============================================================================
