SPECIFICATION Spec
CONSTANTS
    a = a  b = b  right = right  wrong = wrong
    Client = {a, b}
    Pin = {right, wrong}
    Typed <- TypedWrong
    Handed = {right}
    Tries <- TwoAndOne
    MaxAdmin = 1
    MaxCrashes = 1
    None = None
INVARIANTS TypeOK ListedProved PairedIsKept
PROPERTIES CertAnswered
CHECK_DEADLOCK FALSE
