SPECIFICATION FairSpec
CONSTANTS
    q1 = q1
    q2 = q2
    Qid <- mcQid2
    MAX_ATTEMPTS = 2
    MaxCandidates = 2
    MAX_IN_FLIGHT = 3
    Snapshots <- VpnSnapshots
    Fallbacks <- OnlyNoFallback
    HostTables <- NoHosts
    Hostnames <- NoHostnames
    Resolves <- SearchCached
    Lookups <- NoQuestions
    Label <- mcLabel
    MaxLabels = 3
    ScopeId <- mcScopeId
    Server <- mcServer
    LinkLocal <- mcLinkLocal
    Address <- mcAddress
    Loopback <- mcLoopback
    ReverseMap <- mcReverseMap
INVARIANTS
    BudgetExact
    OneExchangePerTask
    IInv
PROPERTIES
    EveryQuestionAnswered
