SPECIFICATION Spec
CONSTANTS
    q1 = q1
    q2 = q2
    Qid <- mcQid2
    MAX_ATTEMPTS = 2
    MaxCandidates = 1
    MAX_IN_FLIGHT = 2
    Snapshots <- ChangingSnapshots
    Fallbacks <- mcFallbacks
    HostTables <- NoHosts
    Hostnames <- NoHostnames
    Resolves <- OneNameAnew
    Lookups <- NoQuestions
    Label <- mcLabel
    MaxLabels = 3
    ScopeId <- mcScopeId
    Server <- mcServer
    LinkLocal <- mcLinkLocal
    Address <- mcAddress
    Loopback <- mcLoopback
    ReverseMap <- mcReverseMap
INVARIANTS
    TypeOK
    CacheFromConfiguredServers
    NoStaleFill
PROPERTIES
    ServerOrder
    ImplementsExchanges
SYMMETRY Questions
