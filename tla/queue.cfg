SPECIFICATION QueueSpec
CONSTANTS
    Traffic <- KeysAlong
    MaxPackets = 4
    NoItem = NoItem
INVARIANTS QueueTypeOK NothingLost OrderKept
PROPERTIES AllReachOs
CHECK_DEADLOCK FALSE
