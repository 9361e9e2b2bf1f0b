SPECIFICATION CacheSpec
CONSTANTS
    CacheKey <- mcCacheKey
    Answers <- mcAnswers
    MAX_ENTRIES = 2
    MAX_POSITIVE_TTL = 2
    TICKS = 2
    Horizon = 4
INVARIANTS
    SizeBounded
    NeverOutlivesTTL
PROPERTIES
    EvictsTheFirstToExpire
    ImplementsMemory
