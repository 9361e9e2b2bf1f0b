SPECIFICATION FairDaemonSpec
CONSTANTS
    Qid = {"n1", "n2", "u1", "u2"}
    MaxFuel = 1
    Door <- mcDoor
    Peer <- mcPeer
    Starts <- mcStarts
    MAX_PENDING_CLIENTS = 1
    MAX_PENDING_UDP = 2
    MAX_PENDING_UDP_PER_PEER = 1
    IO_BATCH_LIMIT = 2
INVARIANTS
    TablesAgree
    PendingActionsCurrent
    RepliedOnce
    AdmissionBounded
PROPERTIES
    EveryRequestEnds
