----------------------------- MODULE LocalBooks -----------------------------
(***************************************************************************)
(* The books that OrderBooksIndexerWorker keeps, the rows it sends to the  *)
(* database, and what is to be true of both, measured against the          *)
(* exchange.  IndexerWorker promises it of any connectors, BookPipeline    *)
(* shows it of the real ones.                                              *)
(***************************************************************************)
EXTENDS BookFeed

VARIABLES
    cursor,         \* symbol_cursors: [state, last_seq_id, last_ts] per key
    book,           \* book_indexer: the book of each key
    ingestion       \* the ingestion channel

bookVars == <<cursor, book>>

(* b shows nothing of k that the exchange did not have at update v, and    *)
(* where the exchange's feed is not cut to a depth it shows all of it.     *)
Faithful(k, v, b) ==
    /\ \A l \in Levels : b[l] \in {0, Content[k][v][l]}
    /\ ExchangeOf(k) # "binance" => b = Content[k][v]

(* A book that counts as synced is the exchange's book at last_seq_id:     *)
(* whatever was dropped, repeated or reordered on the way, the gap check   *)
(* of handle_event lets no wrong level into it.  For Binance levels may be *)
(* missing (see MissingOnlyBeyondDepth), but none is stale or invented.    *)
BookFaithful ==
    \A k \in Keys : cursor[k].state = "Synced" =>
        /\ cursor[k].last_seq_id \in Versions
        /\ Faithful(k, cursor[k].last_seq_id, book[k])

(* The updates at which a book stood in the nanosecond `stamp`.            *)
StampedAt(k, stamp) ==
    {v \in Versions : /\ Nanos(Time[k][v]) <= stamp
                      /\ v < MaxVersion => stamp < Nanos(Time[k][v + 1])}

(* What a row is to be measured by.  On Bybit it is the stamp alone, as a  *)
(* reader of the database has it.  The stamp of a Binance row is not the   *)
(* time of anything (see StampIsEventTime of ScaledBook), so that here the *)
(* history `of` of the row stands for it.                                  *)
UpdatesOf(row) ==
    IF ExchangeOf(row.key) = "binance" THEN {row.of} ELSE StampedAt(row.key, row.stamp)

(* A row tells the truth about the book at its stamp, also when the local  *)
(* book was lost or reloaded since.                                        *)
RowFaithful(row) == \E v \in UpdatesOf(row) :
    IF row.type = "Tick"
    THEN row.size = Content[row.key][v][row.level]
    ELSE /\ \A l \in Levels : row.levels[l] \in {0, Content[row.key][v][l]}
         /\ ExchangeOf(row.key) # "binance"
                => row.levels = TopOf(Content[row.key][v], DEFAULT_PUBLISH_DEPTH)

(* Every row on its way to the database is true: emit_ticks stamps a level *)
(* with the time of the event that it is of, and emit_snapshots a book     *)
(* with the time its cursor has kept, through the conversions of both.     *)
RowsFaithful == \A i \in 1 .. Len(ingestion) : RowFaithful(ingestion[i])

(* The levels a synced book lacks.                                         *)
Missing(k) ==
    {l \in Levels : /\ cursor[k].state = "Synced"
                    /\ book[k][l] = 0
                    /\ Content[k][cursor[k].last_seq_id][l] > 0}

(* truncate_book_depth and the depth of the REST snapshot lose a level     *)
(* only at a moment when the exchange has BINANCE_LOCAL_BOOK_DEPTH better  *)
(* ones on that side.                                                      *)
MissingOnlyBeyondDepth ==
    [][\A k \in Keys : \A l \in Missing(k)' \ Missing(k) :
          TopOf(Content[k][cursor'[k].last_seq_id], BINANCE_LOCAL_BOOK_DEPTH)[l] = 0]_bookVars
=============================================================================
