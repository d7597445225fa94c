SPECIFICATION Spec
CONSTANTS
    u1 = u1
    t1 = t1  t2 = t2  t3 = t3  t4 = t4
    NoRow = NoRow  NoValue = NoValue
    Users = {u1}
    Values = {t1, t2, t3, t4}
    Rows = {1, 2, 3}
    Reqs = {1, 2, 3}
    Life = 0
    MayRestart = TRUE
SYMMETRY SameValues
INVARIANTS TypeOK NoSessionReturns
