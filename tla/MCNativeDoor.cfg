SPECIFICATION DoorSpec
CONSTANTS
    Conn = {"wide", "narrow", "stalled"}
    Stalled = {"stalled"}
    FRAME = 3
    ROOM <- mcROOM
    MAX_PENDING_REPLIES = 1
CHECK_DEADLOCK FALSE
INVARIANTS
    RepliesWhole
    QueueFair
PROPERTIES
    EveryCallEnds
