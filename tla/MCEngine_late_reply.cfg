SPECIFICATION Spec
CONSTANTS
    q1 = q1
    q2 = q2
    Qid <- mcQid1
    MAX_ATTEMPTS = 2
    MaxCandidates = 2
    MAX_IN_FLIGHT = 2
    Snapshots <- ChangingSnapshots
    Fallbacks <- OnlyNoFallback
    HostTables <- NoHosts
    Hostnames <- NoHostnames
    Resolves <- OneName
    Lookups <- NoQuestions
    Label <- mcLabel
    MaxLabels = 3
    ScopeId <- mcScopeId
    Server <- mcServer
    LinkLocal <- mcLinkLocal
    Address <- mcAddress
    Loopback <- mcLoopback
    ReverseMap <- mcReverseMap
PROPERTIES
    LateReplyCached
