-------------------------- MODULE MCDeviceIdentity --------------------------
(* Instances of DeviceIdentity for TLC.                                    *)
EXTENDS DeviceIdentity, TLC

\* Identities, and passwords, are interchangeable.
SameValues == Permutations(Ids) \cup Permutations(Passwords)
=============================================================================
