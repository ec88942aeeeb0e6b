SPECIFICATION MCSpec
CONSTANTS
    Messages <- MCMessages
    UsizeMax = 9
    NullPrice <- MCNullPrice
    None = None
    PriceScale = 2
    QtyScale = 3
    MaxPrice = 15
    MaxSize = 15
    MaxInt64 = 63
    Kilo = 4
    MaxMantissa = 800
    VenuePrices <- MCVenuePrices
    VenueSizes <- MCVenueSizes
    PriceExp <- MCPriceExp
    QtyExp <- MCQtyExp
    Exchanges = {"binance", "bybit"}
    BINANCE_PUBLISH_DEPTH = 1
    MaxChanges = 2
    MaxTime = 3
    Keys = {k1, k2}
    Ids = {1, 2}
    Prices = {1, 2, 3}
    Sizes = {0, 1}
    Depths = {1, 2}
INVARIANTS
    CursorOnLayout
    DecodedIsSent
    IgnoredIsForeign
    BookWithinTick
    RowWithinTick
    ColumnsInOrder
PROPERTY
    ImplementsPriceLevels
CHECK_DEADLOCK FALSE
