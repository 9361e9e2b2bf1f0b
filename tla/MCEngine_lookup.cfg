SPECIFICATION Spec
CONSTANTS
    q1 = q1
    q2 = q2
    Qid <- mcQid2
    MAX_ATTEMPTS = 1
    MaxCandidates = 2
    MAX_IN_FLIGHT = 2
    Snapshots <- StableSnapshots
    Fallbacks <- OnlyNoFallback
    HostTables <- SomeHosts
    Hostnames <- SomeHostnames
    Resolves <- LocalAndRemote
    Lookups <- BothFamilies
    Label <- mcLabel
    MaxLabels = 3
    ScopeId <- mcScopeId
    Server <- mcServer
    LinkLocal <- mcLinkLocal
    Address <- mcAddress
    Loopback <- mcLoopback
    ReverseMap <- mcReverseMap
INVARIANTS
    NoStrandedQuestion
    InFlightBounded
PROPERTIES
    AnsweredOnce
    ImplementsExchanges
