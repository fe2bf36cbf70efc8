CONSTANTS
    Nul = Nul
    Letters = {a, b}
    NL = NL
    RxBufferMaxLen = 2
    ChunkLen = 3
    MaxReceived = 6
    Threads = {t1, t2, t3}
    Values = {v1, v2}
    Uninit = Uninit
    Torn = Torn
    Digit = 2
    Words = {0, 1, 228}
    Versions <- MCVersions
    StrMax = 20
    StrLen <- MCStrLen
    LedQueueLen = 1
    MaxCount = 2
    Delay = 2
    MaxRequests = 2
    Hands <- MCHands
    BufLen = 6
    MaxDescs = 3
SPECIFICATION BoardSpec
CHECK_DEADLOCK FALSE
INVARIANTS
    LedTypeOK
    ShowsTopPriority
    LitAgrees
    ReadsWhole
    PrintsLines
    IdentityAgrees
    SamePad
    FindsVendorEndpoints
PROPERTIES
    FixedOncePublished
    DfuShownAtReset
    BootselHappens
