CONSTANTS
    Exchanges = {"binance"}
    Instruments <- MCTwoInstruments
    Upper <- MCUpper
    Prices = {1, 2, 3}
    Sizes = {0, 1, 2, 3}
    MaxVersion = 4
    Content <- MCDeepContent
    Time <- MCTime
    SnapshotTime <- MCSnapshotTime
    MaxInt64 = 63
    Kilo = 2
    BINANCE_LOCAL_BOOK_DEPTH = 2
    BINANCE_PUBLISH_DEPTH = 1
    DEFAULT_PUBLISH_DEPTH = 1
    CmdCap = 1
    SignalCap = 1
    IngestCap = 1
    AuditCap = 1
    RestLag = 1
    MaxConn = 2

SPECIFICATION MCSpec
INVARIANTS
    BookFaithful
    
    NoSpuriousGap
PROPERTIES
    ImplementsIndexer
    MissingOnlyBeyondDepth
    StrandedUntilReconnect
    BridgeMissIsSilent
