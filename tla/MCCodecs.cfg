SPECIFICATION Spec
CONSTANTS
    MAX_MESSAGE_BYTES = 2
    MaxBytes = 7
    MAX_DEPTH = 4
    AddressText = {"ip"}
    MaxAdded = 2
    MAX_NAME_LEN = 7
    MAX_HOPS = 2
    CLASSIC_UDP_SIZE = 11
    EDNS_UDP_SIZE = 14
    MAX_MESSAGE_SIZE = 24
    MAX_ALIASES = 2
    MAX_POSITIVE_TTL = 4
    MAX_NEGATIVE_TTL = 2
    MaxUnits = 11
    MaxRecords = 4
    Enough = 140
CHECK_DEADLOCK FALSE
INVARIANTS
    StreamsWhole
    MessagesReadAlike
    DnsReadAlike
    AliasesFollowed
    BuffersSound
