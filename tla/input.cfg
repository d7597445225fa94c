SPECIFICATION Spec
CONSTANTS
    Shift = Shift
    RShift = RShift
    N = N
    Meta = Meta
    Key = {Shift, RShift, N}
    Shifts = {Shift, RShift}
    Hotkey = {N}
    KeyMap <- NoKeybindings
    Pad = {0, 1}
    MaxPads = 2
    Mixes <- DeskOrPads
    Addr = {1, 2, 3, 4}
    MaxSent = 5
    MaxSessions = 2
    Null = Null
    Disabled = Disabled
    NoTask = NoTask
    NoId = NoId
INVARIANTS TypeOK TimersKnown Mirrored PadsKept
PROPERTIES PutOffEnds
CHECK_DEADLOCK FALSE
