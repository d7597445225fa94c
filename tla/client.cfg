SPECIFICATION ClientSpec
CONSTANTS
    Nil = Nil
    Ids = {i1}
    Passwords = {p1, p2, p3}
    Pins = {n1, n2}
    Hostnames = {h1, h2}
    PinWords = {p3, h2}
    MaxStarts = 2
INVARIANT ClientTypeOK
PROPERTIES PinGetsThrough PasswordArrives
