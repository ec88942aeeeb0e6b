------------------------------ MODULE ScaledBook ------------------------------
(***************************************************************************)
(* One side of one book between a venue's decimals and the database: what  *)
(* the adapters, the columns and the rows make of prices, sizes and times. *)
(* The side is that of the asks.  Every event arrives; what may happen on  *)
(* the way, and the depth of a local book, are the subject of BookPipeline.*)
(*                                                                         *)
(* The venue's prices and sizes are mantissas, at the exponents of a       *)
(* Binance frame.  Bybit and the REST interface write the same decimals as *)
(* text.                                                                   *)
(***************************************************************************)
EXTENDS LevelScaling, FiniteSetsExt

CONSTANTS
    MaxMantissa,    \* the largest mantissa of a price
    VenuePrices,    \* mantissas, as the venue's tick has them
    VenueSizes,     \* mantissas; 0 is no level
    PriceExp,       \* price_exponent of a frame
    QtyExp,         \* qty_exponent of a frame
    Exchanges,      \* of {"binance", "bybit"}
    BINANCE_PUBLISH_DEPTH,
    MaxChanges,     \* bound: levels of a diff
    MaxTime         \* bound: milliseconds, one event in each

ASSUME VenueAssumption ==
    /\ MaxMantissa \in Nat /\ VenuePrices \subseteq 0 .. MaxMantissa
    /\ VenueSizes \subseteq Nat /\ 0 \in VenueSizes
    /\ {PriceExp, QtyExp} \subseteq Int /\ PriceExp < 0 /\ QtyExp < 0
    /\ Exchanges \subseteq {"binance", "bybit"} /\ BINANCE_PUBLISH_DEPTH \in Nat
    /\ MaxChanges \in Nat /\ MaxTime \in Nat \ {0}

(* Arithmetic that the provers do not know; TLC evaluates it.              *)
ASSUME PowersOfTen == {10 ^ (-PriceExp), 10 ^ (-QtyExp)} \subseteq Nat \ {0}

VARIABLES
    exchange,
    time,           \* at the venue, in milliseconds
    venue,          \* the venue's book
    loaded,         \* the indexer's book has had a snapshot
    book,           \* the indexer's book
    last_ts,        \* of the cursor
    rows,           \* tick rows of the last step: level, price, size, at, stamp
    snapshot        \* the last snapshot row: at, stamp

scaledVars == <<exchange, time, venue, loaded, book, last_ts, rows, snapshot>>

ClearedBook == [b \in 0 .. MaxPrice |-> 0]

ScaledInit ==
    /\ exchange \in Exchanges
    /\ time = 1 /\ venue \in [VenuePrices -> VenueSizes]
    /\ loaded = FALSE /\ book = ClearedBook /\ last_ts = 0
    /\ rows = {} /\ snapshot = [at |-> 0, stamp |-> 0]

Price(p) == <<p, 10 ^ (-PriceExp)>>
Qty(q)   == <<q, 10 ^ (-QtyExp)>>

(* A level as the adapter makes it of a frame of the stream.               *)
StreamLevel(p, q) ==
    IF exchange = "binance" THEN ParseLevel(p, q, PriceExp, QtyExp)
    ELSE ToLevel(Price(p), Qty(q))

(* appy_book_update of the levels that fit, one after the other, in the    *)
(* order of the venue's prices: the last of those in one tick counts.      *)
Updated(b, told) ==
    LET touched == {told[p].price : p \in DOMAIN told}
    IN  [x \in 0 .. MaxPrice |->
            IF x \notin touched THEN b[x]
            ELSE told[Max({p \in DOMAIN told : told[p].price = x})].size]

Told(v, prices) == [p \in prices |-> StreamLevel(p, v[p])]

Present == {p \in VenuePrices : venue[p] # 0}

(* load_snapshot, and what it leaves of the time.                          *)
Load(told) ==
    /\ book' = Updated(ClearedBook, told)
    /\ loaded' = TRUE
    /\ last_ts' = time
    /\ rows' = {}
    /\ UNCHANGED <<exchange, time, venue, snapshot>>

(* A snapshot frame of Bybit: a level that does not fit is skipped.        *)
SnapshotFrame ==
    /\ exchange = "bybit"
    /\ Load(Told(venue, Present))

(* bootstrap_events of Binance: a level that does not fit is an error, and *)
(* no snapshot comes of it.  Its time is now_millis.                       *)
Bootstrap ==
    /\ exchange = "binance"
    /\ LET told == [p \in Present |-> ToLevel(Price(p), Qty(venue[p]))]
       IN  (\A p \in Present : told[p] # NoLevel) /\ Load(told)

TickRow(p, level, t) ==
    [of |-> p, price |-> DecimalFromPrice(level.price), size |-> DecimalFromSize(level.size),
     at |-> t, stamp |-> TickStamp(EventTime(exchange, t))]

(* The best prices of a book.                                              *)
Shown(b) ==
    {x \in DOMAIN b : b[x] # 0 /\ Cardinality({y \in DOMAIN b : y < x /\ b[y] # 0})
                                        < BINANCE_PUBLISH_DEPTH}

(* emit_ticks: a row of every level of the diff that fits; of Binance only *)
(* where the updated book b shows a level at that price.                   *)
Ticks(b, change, t) ==
    {TickRow(p, StreamLevel(p, change[p]), t) :
        p \in {x \in DOMAIN change :
                  /\ StreamLevel(x, change[x]) # NoLevel
                  /\ exchange = "binance" => StreamLevel(x, change[x]).price \in Shown(b)}}

(* Levels change, and a diff tells them.                                   *)
Delta ==
    /\ time < MaxTime
    /\ time' = time + 1
    /\ \E prices \in UNION {kSubset(k, VenuePrices) : k \in 1 .. MaxChanges} :
       \E change \in [prices -> VenueSizes] :
          /\ \A p \in prices : change[p] # venue[p]
          /\ venue' = [p \in VenuePrices |-> IF p \in prices THEN change[p] ELSE venue[p]]
          /\ IF loaded
             THEN /\ book' = Updated(book, Told(venue', prices))
                  /\ last_ts' = EventTime(exchange, time + 1)
                  /\ rows' = Ticks(book', change, time + 1)
             ELSE UNCHANGED <<book, last_ts>> /\ rows' = {}
    /\ UNCHANGED <<exchange, loaded, snapshot>>

(* emit_snapshots; its levels are the book's, at the scales of tick rows.  *)
EmitSnapshot ==
    /\ loaded /\ last_ts # 0
    /\ snapshot' = [at |-> time, stamp |-> SnapshotStamp(last_ts)]
    /\ rows' = {}
    /\ UNCHANGED <<exchange, time, venue, loaded, book, last_ts>>

ScaledNext == SnapshotFrame \/ Bootstrap \/ Delta \/ EmitSnapshot

ScaledSpec == ScaledInit /\ [][ScaledNext]_scaledVars

-----------------------------------------------------------------------------
Abs(n) == IF n < 0 THEN -n ELSE n

(* Half a tick at most lies between a decimal and k ticks of 1/scale.      *)
Near(dec, k, scale) == 2 * Abs(dec[1] * scale - k * dec[2]) <= dec[2]

AtMostHalf(dec, of, scale) ==
    2 * scale * Abs(dec[1] * of[2] - of[1] * dec[2]) <= dec[2] * of[2]

(* Less than half a tick beyond the largest integer.                       *)
Fits(dec, scale, max) == 2 * dec[1] * scale < (2 * max + 1) * dec[2]

Shares(p, q) == \E b \in 0 .. MaxPrice : Near(Price(p), b, PriceScale) /\ Near(Price(q), b, PriceScale)

SizeFits(q)    == Fits(Qty(q), QtyScale, MaxSize)
SizeVisible(q) == 2 * q * QtyScale > 10 ^ (-QtyExp)

(* The integers of a book tell the venue's decimals, through snapshots and *)
(* diffs, text and mantissas.  No level is invented: its size is the       *)
(* present one of a level of the venue half a tick away, unless that one   *)
(* left u64, which leaves the old size in the book.  And none is missing   *)
(* but for a price beyond u32, a size below half a tick, or another price  *)
(* of the venue in the same tick, whose removal removes both.              *)
BookWithinTick ==
    loaded =>
        /\ \A b \in 0 .. MaxPrice : book[b] # 0 =>
              \E p \in VenuePrices :
                  /\ Near(Price(p), b, PriceScale)
                  /\ Near(Qty(venue[p]), book[b], QtyScale) \/ ~SizeFits(venue[p])
        /\ \A p \in VenuePrices :
              /\ Fits(Price(p), PriceScale, MaxPrice)
              /\ SizeFits(venue[p]) /\ SizeVisible(venue[p])
              /\ \A q \in VenuePrices \ {p} : ~Shares(p, q)
              => \E b \in 0 .. MaxPrice :
                    /\ Near(Price(p), b, PriceScale)
                    /\ Near(Qty(venue[p]), book[b], QtyScale) /\ book[b] # 0

(* A row's decimals are those of its level, rounded to half a tick, and    *)
(* the rows of Bybit have the time of the last event in nanoseconds.       *)
RowWithinTick ==
    /\ \A r \in rows : /\ AtMostHalf(r.price, Price(r.of), PriceScale)
                      /\ AtMostHalf(r.size, Qty(venue[r.of]), QtyScale)
    /\ exchange = "bybit" =>
          \A r \in rows \cup {snapshot} : r.stamp = Nanos(r.at)

(* A tick row has the time of its event, in nanoseconds (the event time of *)
(* binance.rs:505, TimestampNanos at ingestion.rs:51).                     *)
StampIsEventTime == \A r \in rows : r.stamp = Nanos(r.at)
=============================================================================
