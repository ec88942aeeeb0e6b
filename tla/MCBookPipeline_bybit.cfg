CONSTANTS
    Exchanges = {"bybit"}
    Instruments <- MCInstruments
    Upper <- MCUpper
    Prices = {1}
    Sizes = {0, 1, 2, 3, 4}
    MaxVersion = 4
    Content <- MCContent
    Time <- MCTime
    SnapshotTime <- MCSnapshotTime
    MaxInt64 = 63
    Kilo = 2
    BINANCE_LOCAL_BOOK_DEPTH = 1
    BINANCE_PUBLISH_DEPTH = 1
    DEFAULT_PUBLISH_DEPTH = 1
    CmdCap = 3
    SignalCap = 1
    IngestCap = 1
    AuditCap = 1
    RestLag = 0
    MaxConn = 3

SPECIFICATION FairSpec
INVARIANTS
    BookFaithful
    RowsFaithful
    NoSpuriousGap
PROPERTIES
    ImplementsIndexer
    Resyncs
    CatchesUp
