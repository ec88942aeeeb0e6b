------------------------------ MODULE BookFeed ------------------------------
(***************************************************************************)
(* The vocabulary every order-book module shares: the instruments, what an *)
(* exchange publishes about them, and the commands that carry it through   *)
(* the process, with the channels the connectors and the indexer share.    *)
(*                                                                         *)
(* The exchange is the source of truth.  It numbers the states of a book   *)
(* (Binance: lastUpdateId, Bybit: u); Content[k][v] is the book of k after *)
(* its update v, a function from levels to sizes in which size 0 means     *)
(* that the level is absent, as in appy_book_update.  A message of the     *)
(* feed is valid when it tells the truth about Content; whether the code   *)
(* keeps it true is what the other modules are about.                      *)
(***************************************************************************)
EXTENDS BookLevels, Channels, Stamps

CONSTANTS
    Exchanges,      \* the wired-in exchanges, among "binance" and "bybit"
    Instruments,    \* [exchange -> the instrument names main.rs configures]
    Upper,          \* to_ascii_uppercase on those names
    MaxVersion,     \* bound: update ids run from 1 to MaxVersion
    Content,        \* [Keys -> [Versions -> Books]], see above
    Time,           \* the millisecond in which a book reached an update
    SnapshotTime,   \* the timestamp of a snapshot taken at an update
    BINANCE_LOCAL_BOOK_DEPTH,
    BINANCE_PUBLISH_DEPTH,
    DEFAULT_PUBLISH_DEPTH,
    CmdCap,         \* capacity of the command channel (32768 in main.rs)
    SignalCap,      \* capacity of the restart broadcast (1024)
    IngestCap,      \* capacity of the ingestion channel (10000)
    AuditCap        \* capacity of the audit channel (1024)

VARIABLES
    cmdQ,           \* the command channel
    signals,        \* restart signals each connector has yet to receive
    lost            \* history: what full channels dropped, <<key, what>>

ASSUME CapAssumption ==
    /\ CmdCap \in Nat \ {0}
    /\ SignalCap \in Nat \ {0}
    /\ IngestCap \in Nat \ {0}
    /\ AuditCap \in Nat \ {0}

ASSUME DepthAssumption ==
    /\ BINANCE_LOCAL_BOOK_DEPTH \in Nat
    /\ BINANCE_PUBLISH_DEPTH \in Nat
    /\ DEFAULT_PUBLISH_DEPTH \in Nat

(* The symbol that the events of an exchange carry for a configured name:  *)
(* the Binance adapter upper-cases every symbol, Bybit sends its own.      *)
EventSymbol(x, i) == IF x = "binance" THEN Upper[i] ELSE i

(* OrderBookIndexer::symbol_key: one book per exchange and symbol.         *)
Keys == UNION {{<<x, EventSymbol(x, i)>> : i \in Instruments[x]} : x \in Exchanges}

ExchangeOf(k) == k[1]

Versions == 1 .. MaxVersion
ASSUME VersionAssumption == MaxVersion \in Nat \ {0}
ASSUME FiniteAssumption  == IsFiniteSet(Keys)
ASSUME ContentAssumption == Content \in [Keys -> [Versions -> Books]]

(* The stamp of a REST snapshot of Binance is the local clock's and tells  *)
(* nothing.  Bybit stamps a snapshot while the update is the latest one,   *)
(* pushes updates at least 20 ms apart, and its times fit i64 nanoseconds. *)
ASSUME TimeAssumption ==
    /\ Time \in [Keys -> [Versions -> Nat]]
    /\ SnapshotTime \in [Keys -> [Versions -> Nat]]
    /\ \A k \in Keys : ExchangeOf(k) # "binance" => \A v \in Versions :
           /\ Time[k][v] <= SnapshotTime[k][v]
           /\ v < MaxVersion => SnapshotTime[k][v] < Time[k][v + 1]
           /\ Nanos(SnapshotTime[k][v]) <= MaxInt64

-----------------------------------------------------------------------------
(* Faulty variant: the publish depth where the local depth belongs.        *)
LocalDepth_PublishDepth(k, b) ==
    IF ExchangeOf(k) = "binance" THEN TopOf(b, BINANCE_PUBLISH_DEPTH) ELSE b

(* truncate_book_depth where local_depth_for_exchange gives a depth.       *)
LocalDepth(k, b) ==
    IF ExchangeOf(k) = "binance" THEN TopOf(b, BINANCE_LOCAL_BOOK_DEPTH) ELSE b

(* publish_depth_for_exchange.                                             *)
PublishDepth(k) ==
    IF ExchangeOf(k) = "binance" THEN BINANCE_PUBLISH_DEPTH ELSE DEFAULT_PUBLISH_DEPTH

-----------------------------------------------------------------------------
(* What an exchange says.  The levels touched by updates lo..hi are those  *)
(* that had two sizes between the states lo-1 and hi; a delta gives their  *)
(* absolute size in state hi.  The Binance REST snapshot is asked with     *)
(* limit = BINANCE_LOCAL_BOOK_DEPTH, a Bybit snapshot is the whole book of *)
(* the subscribed topic.                                                   *)
Touched(k, lo, hi) ==
    {l \in Levels : \E m, n \in (lo - 1) .. hi : Content[k][m][l] # Content[k][n][l]}

SnapshotBook(k, v)   == LocalDepth(k, Content[k][v])
SnapshotLevels(k, v) ==
    [l \in {m \in Levels : SnapshotBook(k, v)[m] > 0} |-> SnapshotBook(k, v)[l]]
DeltaLevels(k, lo, hi) == [l \in Touched(k, lo, hi) |-> Content[k][hi][l]]

(* NormalizedBookEvent.                                                    *)
SnapshotEvent(k, v) ==
    [key |-> k, is_snapshot |-> TRUE, timestamp |-> SnapshotTime[k][v],
     seq_id |-> v, prev_seq_id |-> v, levels |-> SnapshotLevels(k, v)]

DeltaEvent(k, lo, prev, hi) ==
    [key |-> k, is_snapshot |-> FALSE, timestamp |-> EventTime(ExchangeOf(k), Time[k][hi]),
     seq_id |-> hi, prev_seq_id |-> prev, levels |-> DeltaLevels(k, lo, hi)]

(* A delta is valid when it closes every gap above prev_seq_id.            *)
ValidSnapshots == {SnapshotEvent(k, v) : k \in Keys, v \in Versions}
ValidDeltas ==
    {DeltaEvent(r[1], r[2], r[3], r[4]) :
        r \in {s \in Keys \X Versions \X Versions \X Versions :
                  1 < s[2] /\ s[2] <= s[3] + 1 /\ s[3] < s[4]}}
ValidEvents == ValidSnapshots \cup ValidDeltas

(* OrderBookCommand.                                                       *)
Update(ev)   == [type |-> "Update", event |-> ev]
TakeSnapShot == [type |-> "TakeSnapShot"]
Commands     == {Update(ev) : ev \in ValidEvents} \cup {TakeSnapShot}

-----------------------------------------------------------------------------
(* What the history variable `lost` records: a delta or snapshot that the  *)
(* full command channel dropped, or a restart signal overwritten in the    *)
(* broadcast channel.                                                      *)
Losses == {"delta", "snapshot", "signal"}
=============================================================================
