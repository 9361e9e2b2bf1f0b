SPECIFICATION Spec
CONSTANTS
    Interfaces <- mcInterfaces
    InterfaceIds <- mcInterfaceIds
    Names <- mcNames
    FallbackChoices <- mcFallbackChoices
    Label <- mcLabel
    MaxLabels = 3
    ScopeId <- mcScopeId
    Server = {"s1", "s9"}
    LinkLocal = {}
    Address = {"ip8", "ip9"}
    Loopback = {}
    ReverseMap <- mcReverseMap
CHECK_DEADLOCK FALSE
INVARIANTS
    ExclusiveTakesAll
    FallbackLast
    SearchStaysHome
    IrrelevantScopes
    CandidatesAsLoop
