SPECIFICATION Spec
CONSTANTS
    Nil = Nil
    Ids = {i1, i2, i3}
    Passwords = {p1, p2}
    MaxStarts = 3
SYMMETRY SameValues
INVARIANTS TypeOK IdentityKept
