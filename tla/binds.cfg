SPECIFICATION Spec
CONSTANTS
    d1 = d1
    ann = ann  bob = bob  p1 = p1
    MayRestart = TRUE  NoRow = NoRow  Nobody = Nobody
    Users = {1, 2}
    Binds = {1, 2}
    Devices = {d1}
    Names = {ann, bob}
    Passwords = {p1}
    Reqs = {1, 2, 3}
    Sends <- ClaimSends
    FirstUsers <- TwoAccounts
INVARIANTS TypeOK OneOwner
PROPERTIES SuccessMeansOwner OwnershipIsKept DisabledStaysDisabled
