# Verification of the live crypto data collectors

This directory specifies, model-checks and proves properties of the programs in
this repository: the Rust process that keeps order books of several exchanges
and writes them to QuestDB, the Python collector of Polymarket data, and the
archiver that exports what QuestDB is about to drop. Paths below are relative to
the repository; `models.rs` is `crates/exchanges-common/src/models.rs`, `core.rs`
is `crates/connectors/src/core.rs`.

- [1. The system](#1-the-system)
- [2. The modules](#2-the-modules)
- [3. What each run checks](#3-what-each-run-checks)
- [4. What is proved](#4-what-is-proved)
- [5. Fairness](#5-fairness)
- [6. Assumptions about the outside](#6-assumptions-about-the-outside)
- [7. What is not modelled](#7-what-is-not-modelled)
- [8. What is left](#8-what-is-left)

Run a model with `tlc -workers 2 -config MCBookPipeline_bybit.cfg MCBookPipeline`
and check proofs with `tlapm BookPipelineProofs.tla`.

## 1. The system

### The Rust process

`main` (`crates/app/src/main.rs`) starts these tasks under one `TaskSupervisor`:

| task | state it keeps | takes | gives |
|---|---|---|---|
| exchange connector (one per exchange) | connection, `active_subs`, backoff; for Binance `sync_state` per symbol | websocket frames, REST snapshots, restart signals | `Update` commands |
| snapshot ticker (service, 50 ms) | none | time | `TakeSnapShot` commands |
| order-book indexer | a cursor (`state`, `last_seq_id`, `last_ts`) and two sorted columns per symbol | commands | rows, audit events, restart signals |
| ingestion client | batch under collection; QuestDB line buffer | rows | requests to QuestDB |
| audit client | events under collection | audit events | inserts into Postgres |

They are joined by bounded channels: commands (32768), rows (10000), audit
events (1024), and a broadcast of restart signals (1024).

```
 Binance --frames/REST--> connector --\                         /--> ingestion client --> QuestDB
                             ^         >-- commands --> indexer <
 Bybit ----frames-------> connector --/        ^           |     \--> audit client ------> Postgres
                             ^              ticker         |
                             +------- restart signals -----+
```

Nobody waits for anybody: every sender uses `try_send` and discards the error,
and a broadcast receiver that lags goes on with what is left. Whatever a channel
had no room for is gone, and the design relies on the *sequence numbers* of the
exchanges to notice. That is the centre of this project: what can be said about
a book, and about the rows written from it, when any message may be dropped,
repeated, delayed, or belong to an earlier connection.

**Order-book columns** (`OrderBookIndexer`, models.rs:127-260). A slot-map id per
`exchange:symbol`, and per id a column of prices and one of sizes for each side.
Updates find their place by binary search. Correct when ids are never shared and
every column stays sorted, free of duplicates and of empty levels.

**Indexer** (`OrderBooksIndexerWorker`, models.rs:388-701). A snapshot replaces
the book. A delta is ignored before the first snapshot; it is a gap when its
`prev_seq_id` is neither 0 nor the cursor's `last_seq_id`; otherwise it is
applied, Binance books are cut to 200 levels, and a row per published level goes
out. A gap makes an audit event and a restart signal and the book awaits a
snapshot. Correct when a book that counts as synced is the exchange's book at
`last_seq_id`, and when every row was true of the book at the time it is stamped
with.

**Connectors** (`ExchangeConnector`, models.rs:728-931, with the adapters
`binance.rs` and `bybit.rs`). Connect, subscribe, bootstrap, then serve one
socket. Bybit sends a snapshot frame with each subscription; Binance does not,
so the adapter fetches one over REST and looks for the first diff that bridges
snapshot and stream. Binance's frames are SBE, read by
generated codecs; prices and sizes become integers in ticks. Correct when an
event says what the frame said, never claims to continue an update it does not
continue, when a gap is reported only if something was lost, and when
a book that lost its sequence gets a snapshot again. Around the connections runs
a loop (`run`) with a backoff of 1 to 60 s; it is correct when it backs off as
long as the failures account for and stops once the token is cancelled.

**Ingestion client** (`IngestionClient`, `IngestionController`, `QuestDBClient`;
core.rs:136-261, ingestion.rs). Rows are collected to batches of 1000 or for
20 s, pushed one by one into the line buffer of questdb-rs, and sent as one
request. Correct when rows reach the table once and in order, failed requests
included.

**Audit client** (`AuditClient`, core.rs:14-134). Events are collected and
inserted one by one out of `Vec::drain`. Correct when an event is stored at most
once and in order, and, if no insert fails, exactly once.

**Task supervisor and shutdown** (models.rs:995-1097, main.rs:127-153). Services
are restarted after 5 s, workers are not; Ctrl-C cancels a token and waits for
every task. Correct when shutdown ends, and ends only after the tasks have.

### The Python programs

**Polymarket collector** (`shared/ingestion.py`, one entrypoint per time window).
A manager starts a worker per window, before it begins, that streams frames into
two queues; two writers collect batches of 1000 rows or 0.5 s and send them to
QuestDB. `run` restarts writers and manager when one of the three ends. All are
tasks of one asyncio loop. Correct when every window has its worker from its
first moment on, no window is streamed twice, a failure is over after the 5 s
that `run` sleeps, and a row that was read reaches its table once and in order.

**Archiver** (`scripts/cron/archiver.py`). Every night, and when it starts, it
asks QuestDB to export each finished day of each table and records the files in
Postgres. QuestDB drops what is old, the `_tbt` tables by the hour after 2 days,
the `_price` tables by the day after 3 (001_init_up.sql). Correct when no day
loses rows before it was exported, and when Postgres lists what was exported and
nothing else.

**Migrations** (`scripts/migrate.py`) runs SQL files in order.

### What is hard here

- *Dropped messages.* Full channels drop deltas, snapshots, restart signals, rows
  (models.rs:848, 896, 920; 573; 640).
- *Ordering between connections.* Commands of an old connection are still queued
  when a new one starts; signals for it come later; REST snapshots may be older
  than the book they replace (models.rs:465, 845).
- *Two sources for one book.* REST snapshot and diff stream of Binance begin at
  different updates (binance.rs:335-393), and a bootstrap of several symbols can
  fail between two of them (binance.rs:116-156).
- *Partial failures.* A batch that is refused in the middle (core.rs:150), a
  request that was stored but reported as failed (core.rs:152), an insert that
  fails in the middle of `drain` (core.rs:111).
- *Liveness that hangs on one spelling.* Binance's names are configured in lower
  case and come back in upper case (main.rs:107, models.rs:861).
- *Shutdown* while a task is in any of these, with workers that panicked and a
  service that ends, backs off or is aborted (models.rs:1023-1063).
- *One event loop.* A coroutine that loops without suspending stops every other
  task and timer of the collector (ingestion.py:333), and time goes on during
  the awaits of the manager (ingestion.py:411-434).

- *Cursors through frames.* One limit walks through a block, two nested groups
  and a text; every length comes from the frame, and the first byte of a frame
  decides what it is taken for (binance.rs:170).
- *Widths.* Prices in 32 bits, sizes and nanoseconds in 64, rounding that puts two
  levels into one (binance.rs:461, bybit.rs:125, models.rs:584).
- *Clauses that run at the end.* A `finally` sends a batch that has just failed
  again (ingestion.py:108); a queue outlives its writer.
- *Nights.* An export and its record are two systems; a failure between them is
  met again by every later night (archiver.py:113, 157), an export whose answer
  is lost looks like one that failed (archiver.py:77), and rows expire meanwhile,
  of some tables in pieces of a day.

`PROJECT.json` lists these at their lines, with the properties that watch them.

## 2. The modules

```
BookLevels          books as functions from levels to sizes
Stamps              the times of events and the stamps of rows
  PriceLevels       abstract: a book per key, set / clear / truncate
  OrderBook         the sorted columns; refines PriceLevels
  BookFeed          what exchanges publish; commands (EXTENDS Channels, Stamps)
    LocalBooks      the indexer's books and rows, and what must be true of them
      IndexerWorker the indexer in an open environment
    ExchangeConnector   the connectors and the exchanges   (EXTENDS BinanceSync)
      BookPipeline  connectors + ticker + indexer; refines IndexerWorker
                                        (EXTENDS ExchangeConnector, IndexerWorker)
SbeLayout           where the SBE codecs write and read each field
  SbeCodec          a frame from the first encoder call to the last decoder call
LevelScaling        decimals to integers and back        (EXTENDS Stamps)
  ScaledBook        one side of a book, from a venue's decimals to its rows
Channels            try_send on bounded channels
IngestionClient     rows to QuestDB                        (EXTENDS Channels)
AuditClient         audit events to Postgres               (EXTENDS Channels)
ConnectorRun        the loop around a connector's connections
  Supervisor        the task supervisor, main and the shutdown
PolymarketCollector the Python collector: windows, workers, restarts
CollectorWriter     its queue, batches and requests
Archiver            export and record, over nights
MC*                 instances for TLC
*Proofs             theorems and proofs
```

**A book is a function** from levels (side and price) to sizes; size 0 means that
the level is absent, as in the messages and in `appy_book_update`. `OrderBook`
justifies the abstraction: its columns, updated through binary search, refine
`PriceLevels`, in which an update sets one level and truncation keeps the best.
`BookFeed` then applies whole events to such functions (`ApplyLevels`,
`LocalDepth`).

**The exchange is the truth.** `Content[k][v]` is the book of key `k` after its
`v`-th update, `Time[k][v]` the millisecond of that update and
`SnapshotTime[k][v]` that of a snapshot of it. An event is *valid* when it tells the truth about `Content`: a
snapshot of update `v` shows that book, a delta over the updates `lo..hi` gives
the size in `hi` of every level that changed in between. "Correct" thereby means:
equal to `Content` at the sequence number the program claims.

**IndexerWorker** stands in an open environment, *any* sequence of valid events
(`Offer`), which is far more hostile than the connectors. It is the specification
the proofs are about and the abstract specification that `BookPipeline` is shown
to implement. Code to model:

| model | code |
|---|---|
| `cursor`, `book` | `symbol_cursors`, `book_indexer`; a missing cursor behaves as `AwaitingSnapshot` with 0 |
| `LoadSnapshot`, `IgnoreUnsynced`, `MarkCorrupted`, `ApplyDelta` | the four ways through `handle_event` |
| `Gap` | models.rs:490, the `prev_seq_id != 0` escape included |
| `At` | what an event leaves in the cursor, `last_ts` among it |
| `EmitSnapshots`, `Ticks` | `emit_snapshots`, `emit_ticks` with the Binance filter |
| `TickRow`, `SnapshotRow` | a row with its stamp: `event.timestamp * 1_000_000` for a level (models.rs:584), `last_ts.saturating_mul(1_000_000)` for a book (models.rs:692) |
| `Broadcast` | `restart_signal_tx.send` to every receiver, overwriting the oldest |
| `lost`, and `of` in a row | history: what full channels dropped; the update a row was made of |

**Stamps** has the two conversions as the code has them. `EventTime` is the unit
an exchange sends (milliseconds on Bybit, microseconds on Binance), `TickStamp`
wraps as i64 does in a release build, `SnapshotStamp` saturates.

**ExchangeConnector** has one action per arm of `handle_connection` and per await
point of `run` and `push_bootstrap_events` at which others can act. The exchange
itself is external: `version` moves on, a subscription is served some time after
it was sent (`owed`), and frames wait in order in the connection. A frame is cut
to an update range only when it is read, which covers every way the exchange may
have framed its updates. `FetchSnapshot` sets `sync_state` of one instrument
before the next one is fetched; `BootstrapFails` can come between.

**BookPipeline** joins the connectors, the ticker and the indexer: it extends both
modules, and its steps are those of one side that leave the variables of the
other alone (`Connectors`, `Worker`, `SnapshotTicker`, `Drain`). The whole
implements `IndexerWorker` (`ImplementsIndexer`, which is that module's `Spec`):
every event the connectors queue is valid. With it, the theorems about the indexer
carry over to the process; the runs check the same properties of the composition
directly as well: `BookFaithful`, `RowsFaithful` and `MissingOnlyBeyondDepth` are
stated once, in **LocalBooks**.

**SbeLayout** has the offset and width of every field, once as the encoder of a
codec has it and once as its decoder, since the two are separate generated code;
**SbeCodec** runs encoder and decoder of any of the four codecs over them. `limit`,
`offset`, `index`, `count` and `block` are the fields of those names of the
generated structs; one action is one call (`wrap`, `advance` with the fields of
a level, `parent`, the text). A frame maps positions to bytes, and byte
`<<v, i, w>>` is the i-th of the w bytes of value v: a field read at another place
or width than it was written yields `Garbage`. The sender may use a later schema
whose blocks are longer (`rootExtra`, `levelExtra`), which the decoders have to
skip by the lengths in the frame. `ParseMarketEvent` is the adapter's choice of a
decoder; the two codecs the adapter does not know have no caller, and
`CallDecoder` stands for one.

**LevelScaling** and **ScaledBook** replace the abstraction "a price is a price".
A venue's decimal is a fraction; `ToLevel` rounds it to ticks, ties to the even
one, and rejects what leaves u32 or u64, `ParseLevel` comes from the mantissa and
exponent of a frame, `DecimalFromPrice` goes back for a row, and `Stamps` gives
its time. A diff skips a level that is rejected, a Bybit snapshot too, and a REST
bootstrap fails as a whole. `Ticks` is `emit_ticks`: Bybit's rows are the levels
of the diff, Binance's only those at whose price the *updated* book shows a level
among its best (`Shown`), so a level that was removed, or whose size rounds to 0,
gives no row.

**IngestionClient** keeps rows as numbers in the order the indexer offered them:
`rx` the channel, `buffer` the batch under collection, `batch` the part of
`ingested_batch` not yet pushed, `ilp` and `partial` the line buffer of
questdb-rs, `table` the database. `pc` says where in `run` the task is; the
other tasks move between any two of its steps. **AuditClient** is laid out the
same way.

**ConnectorRun** is the loop of `ExchangeConnector::run`: `pc` is the await point
it is at, `backoff` the local variable, `hasUrl` whether `get_url` succeeds. A
connection is only something that lasts for a number of seconds; what it carries
is in `ExchangeConnector`. **Supervisor** adds one service and the other workers,
and the token and tracker they share with `main`. A service runs in a task of its
own: `handle` is what the supervising task sees of it, `live` counts the tasks
there really are, and `InstanceDropped` ends an aborted one some time later. The
only service of `main`, the ticker, never returns; that a service may return or
panic is what `spawn_service` is written for.

**PolymarketCollector** has a clock. `mgr` is the manager with the variables it
read before an await (`seen`, `cur`, `next`), `active` its `active_tasks`,
`workers` every worker ever created. Between two awaits a task is alone, so each
stretch of code up to the next await is one action. `WriterFails` leaves the
workers behind as orphans: the session is closed with the manager, the tasks are
not cancelled. An orphan that wakes asks the closed session for a connection,
gets an error without suspending, and goes round (`spinning`); while it does,
`Blocked` stops everything but time. The model lets an orphan wake at any time,
not only after its 2 s of sleep, and lets a worker end late.

**CollectorWriter** is the way of a row from `put` to QuestDB. `putting` holds the
rows of the frame a worker is at (its receive loop stops while the queue is
full), `batch` is `batch_rows`, `writer` and `phase` say which tasks exist. What the
writer does between two awaits is one step: `FlushFails` therefore holds the
request, the exception and the second request of the `finally` clause. The queue
survives a restart and the batch does not.

**Archiver** has a calendar. `pc` walks through `run_smart_backfill`: the registry,
the tables, their sorted dates, the COPY of a table, that of its `_price` table,
and one INSERT per file. `stored` is what QuestDB has: `Trim` takes hours of a
day of a table that is partitioned by the hour (`trimmed`) while day `d + Ttl` goes
on, `Expire` the rest of a day, or the whole day of another table, after it. A COPY
(`Export`) therefore writes a file that is `whole` or one that is not. Its answer
is success, "exists", an error (`Refused`), or none although the file was
written (`Unanswered`), which archiver.py:77 cannot tell from an error. `strayed`
is history: the files that such a call, or a run that ended early, left
behind. A day is `<<"date", d>>` out of Postgres and `<<"str", d>>` out of QuestDB,
as psycopg and `strftime` give them, so their difference removes nothing. Any call
may fail, the INSERT with its row stored or not, and the process may end between
any two steps, also while QuestDB goes on with its COPY.

Operators with a suffix (`Gap_OneMissing`, `TakeBatch_Copy`, ...) are *faulty
variants* of the definition they stand before. They are not used by the
specifications; each property is known to be violated when the definition is
replaced by one of them, so that no property holds by the shape of the model.

## 3. What each run checks

The constants of `main.rs` (32768, 10000, 1024, 1000, 200, 20) are replaced by
1 to 3: what matters is that every channel, batch and depth is reached, exceeded
and drained in the run, and the proofs cover all other values. Faulty variants
are found within these bounds.

| run | instance | properties |
|---|---|---|
| `pipeline_binance` | two books in one bootstrap, in one of which nothing happens; four updates, three prices, local depth 2, publish depth 1, two connections, REST snapshots up to one update old, every channel of 1 | `BookFaithful`, `RowsFaithful`, `NoSpuriousGap`, `ImplementsIndexer`, `MissingOnlyBeyondDepth`, `StrandedUntilReconnect`, `BridgeMissIsSilent` |
| `pipeline_bybit` | one book, four updates, three connections, command channel of 3, fair | `BookFaithful`, `RowsFaithful`, `NoSpuriousGap`, `ImplementsIndexer`, `Resyncs`, `CatchesUp` |
| `levels` | three machines, of which a behaviour runs one: **frames**, the four codecs with 0 to 2 levels on a side, texts of 0 and 2 bytes, root blocks longer by 0, 3 and 73, levels by 0 and 1, `usize` up to 9; **scaling**, prices 0.50, 0.60, 1.20, 8.00 in halves up to 15 of them, sizes 0, 0.1, 1.5, 9.0 in thirds up to 15, 7-bit stamps, diffs of up to two levels, two of them; **columns**, two keys, two ids, three prices, sizes 0 and 1, depths 1 and 2, histories of any length | `CursorOnLayout`, `DecodedIsSent`, `IgnoredIsForeign`; `BookWithinTick`, `RowWithinTick`; `ColumnsInOrder`, `ImplementsPriceLevels` |
| `scaling_stamps` | the scaling of `levels` alone | `StampIsEventTime`, violated |
| `ingestion` | six rows, of which the fourth is refused, channel and batch of 2, fair | `ExactlyOnce`, `PushedIsKept`, `PartialRowIsFinal`, `Forwarded` |
| `audit` | five events, channel of 2, flush at 3, fair | `ExactlyOnce`, `AtMostOnceInOrder`, `Recorded` |
| `supervisor` | a connector, one service, two workers; waits up to 60 s, connections of 0, 10 and 11 s, eight early ends counted; fair | `OneInstance`, `OneLateSubscription`, `WaitsNoLongerThanDue`, `ServiceComesBack`, `Exits` |
| `collector` | windows of 8 that start 3 off the multiples, workers 2 longer, pre-warming 5 ahead, polls of 1, fetches up to 1, restarts after 2; time to 22, two failures | `OneStreamPerEpoch`, `Covered` |
| `collector_restart` | as `collector` | `RestartsOnTime`, violated |
| `collector_writer` | two workers with three rows each, frames of one or two, queue of 1, batch of 2, two failures, fair | `OnceInOrder`, `Arrives` |
| `archiver` | a `_tbt` table kept for 2 days, by the hour, and its `_price` table, whose 3 days are scaled to one; three days, two faults, COPY that answers "exists" | `FilesAndRowsMatch`, `SeenIsExported` |
| `archiver_records` | as `archiver`, one fault | `OneRowPerFile`, violated |

The three machines of `levels` share no variable: `part` says which of them a
behaviour runs, the others stand in an initial state. They are one run because
they are one question, what a level goes through between a frame and a column;
each is a specification of its own, and the proofs are about those.

Type invariants are theorems (section 4) where a module has a proof, and are not
repeated as runs; so is `PipelineTypeOK`, on which TLC would spend most of its time
enumerating the valid events (theorem `PipelineTyped`).

In `pipeline_binance` the second market is there for what a failure of one book
does to the other; that nothing happens in it halves the product of the two
histories and takes no failure away. The prices and widths of the scaling in `levels`
are chosen for its cases: two prices in one tick, one beyond the width, a size
below half a tick, one beyond the width, a tie, a time that fits as milliseconds
and not as microseconds. In `archiver` a file of the first day can be made on the
second day, whole; on the third, with hours missing and behind a fault of the
second; and the `_price` table loses a day as a whole meanwhile. Two faults let a
lost answer and a failed record meet.

The clock of `collector` is shrunken, its order is that of the code: poll and
fetches are shorter than the pre-warming, the pre-warming is shorter than a
window, the restart is shorter than a window. The run begins in any phase
of a window and sees the rest of it, a whole one and the beginning of a third:
as far as one window can act on another, since a worker begins at most the
pre-warming before its window and outlives it by the grace only.

What they show:

- **No wrong book, no wrong row** (`BookFaithful`, `RowsFaithful`). Drops,
  repetitions and reordering never put a wrong level into a synced book: the
  comparison at models.rs:490 is enough, also through snapshots that take the
  cursor backwards. Bybit books are complete. A Bybit row is measured as a reader
  of the table would, by its stamp: in the nanosecond it carries the book was as
  the row says, through the conversions of `emit_ticks` and `emit_snapshots` and
  the `last_ts` that the cursor kept. A Binance stamp is not the time of anything
  (see below), so its rows are measured by the update they were made of. That a
  level of Binance leaves the table without a removal row, and that the last row
  of a book that awaits its snapshot gets old, is outside of it: each row is true
  of its moment.
- **What truncation costs** (`MissingOnlyBeyondDepth`). A level goes missing from
  a Binance book only when the exchange had that many better ones. It may *stay*
  missing when it comes back into range unchanged, for nothing mentions it again:
  the property is about the step that loses a level, not about the state.
- **Gaps are real** (`NoSpuriousGap`). Neither a reconnection, nor the bridge, nor
  another book causes a reported gap; only a dropped event or a failed bootstrap
  of that book does.
- **Two ways to a book that stops** (both hold as stated, and say what the code
  does). `StrandedUntilReconnect`: a Binance book that lost its sequence gets no
  snapshot for the rest of the connection, because `active_subs` holds
  `btcusdt` and the signal says `BTCUSDT`. `BridgeMissIsSilent`: when the
  bridging diff was published before the subscription was served, every later
  diff is dropped, no gap is reported, and the indexer goes on publishing the
  old book.
- **Bybit recovers** (`Resyncs`, `CatchesUp`) unless a snapshot or a signal was
  itself dropped; then nothing asks again.
- **Rows reach QuestDB once** (`ExactlyOnce`, `PushedIsKept`, `Forwarded`) through
  failed requests. A request stored behind an error is sent twice
  (`resent` in the history), and a refused row ends its batch (`refused`).
- **A row refused half-way stops the ingestion** (`PartialRowIsFinal`): the line
  buffer refuses to begin another row, `QuestDBClient` never clears it, and every
  later batch fails at its first row.
- **Audit events** are stored at most once and in order whatever fails; a failed
  insert costs the events behind it.

- **The process ends** (`Exits`) after Ctrl-C, from every place of the connector's
  loop, with panicked workers and a service in any state. The tracker that `main`
  waits for has the supervising tasks in it and not the tasks of the services: an
  aborted one may still run behind "Graceful shutdown complete." (`live`). A
  connection that was being made is still subscribed, once
  (`OneLateSubscription`). A service that ends comes back, and never runs twice
  (`ServiceComesBack`, `OneInstance`).
- **The backoff never exceeds its due** (`WaitsNoLongerThanDue`). It may stay
  below it: `backoff` is set to 1 as soon as a connection is made
  (models.rs:774), so the test of how long it lasted (models.rs:808) has no effect,
  although `constants.rs:1` calls a task healthy only after 10 s; an exchange that
  accepts and closes at once is reconnected every second.
- **Windows** have one stream at most (`OneStreamPerEpoch`), even across restarts
  that forget the old workers, since those cannot connect any more; and as long
  as no writer fails each window has a worker, connecting or streaming, at its
  first moment and at every later one, if its tokens were found (`Covered`). That
  takes fetches that leave time: three of them and
  one poll have to fit in the pre-warming, which with its 45 s and a poll of 10 s
  means fetches of at most 11 s (`LeadTime` in section 4; nothing in
  ingestion.py limits a fetch but the default of aiohttp, which is minutes).
- **A restart of the collector may be late** (`RestartsOnTime` violated, a finding
  of `PROJECT.json`). ingestion.py:504 says "restarting in 5s", but a worker of
  the closed session that looks for a connection loops without suspending
  (ingestion.py:333) and keeps the event loop until its window is over, up to the
  rest of a window plus 15 s.
- **A frame is read as it was written** (`CursorOnLayout`, `DecodedIsSent`), with
  empty groups, null prices and longer blocks of a later schema. The first byte
  of a frame is the low byte of its block length, so a schema that grows a depth
  block to 91 or 123 bytes would be taken for JSON; `IgnoredIsForeign` says that
  this is the only way to lose a depth event here.
- **Prices and sizes stay within half a tick** (`BookWithinTick`,
  `RowWithinTick`), and the property lists all that does not come through: a price
  beyond u32, a size below half a tick, a size beyond u64, which leaves the *old*
  size in the book, and two prices of the venue in one tick, of which the removal
  of one removes both. With a price beyond u32 in the book, no bootstrap of
  Binance succeeds at all.
- **Tick rows of Binance have a wrong time** (`StampIsEventTime` violated, a
  finding of `PROJECT.json`; the row is of a level that the published depth of the
  book shows). The event time of a frame is in microseconds (binance.rs:505
  builds one), models.rs:584 multiplies it by 1_000_000 as if it
  were milliseconds, and the product leaves i64: a debug build panics and ends the
  indexer, a release build wraps. A negative stamp is refused by the line
  buffer half-way through its row, which `PartialRowIsFinal` says is the end of
  the ingestion. Snapshot rows saturate at i64::MAX instead (models.rs:692). The
  REST path of the same adapter fills the field in milliseconds (binance.rs:145).
- **A Polymarket row is kept once and in order** (`OnceInOrder`) unless its
  request failed; then it may be lost, or stored twice by the `finally` clause,
  and one failure concerns one batch. It arrives (`Arrives`) however full the
  queue was: a worker waits, and the next writer goes on with the queue.
- **No day is lost that a run saw in time** (`SeenIsExported`): a run that sees a
  table through on the day it began, without a failure, leaves a file with every
  row of each completed day that is *surely whole*, that is of which QuestDB's TTL
  cannot have taken anything yet: `day < d + 2` for a `_tbt` table, whose hours of
  day d go in the course of day d + 2, `day <= d + 3` for a `_price` table. A night
  has one day for a `_tbt` table, then: a night that was missed is made up by a
  file with some hours less, which looks like any other. With a COPY that
  overwrites, every night does that to the file of the night before
  (`Overwrites`); with the "exists" that archiver.py:113 is written for, the whole
  file stays. Each night asks for each day again that QuestDB still has, because
  the two sets hold dates and strings, so `README.md`'s "not yet recorded in
  `archives`" (src/README.md:95) is not what happens.
- **A file may never get its row** (`OneRowPerFile` violated, a finding of
  `PROJECT.json`): one whose INSERT was cut off, whose run ended, or whose COPY
  wrote it and lost its answer. A file that exists is a success with nothing to
  record (archiver.py:113), so later runs do not list it either, and `archives`
  is not "one row per archived output file"
  (docs/postgres-metadata-and-archiver.md:23). `FilesAndRowsMatch` says that there
  is no other mismatch: a row always has its file, of its date, and a file without
  a row is being recorded or was left behind in one of these ways.

Deadlock is checked in every run but `ingestion`, `audit` and `supervisor`, whose
tasks really end when the token is cancelled, `levels` and `scaling_stamps`, where
a frame is over when it is read and time has a bound, and the two of the archiver,
which rests when its days are over. `MCSpec` of `collector` stutters when the
bound on time is reached, so that a deadlock before it would show; the pipelines
never rest, for the ticker goes on.

## 4. What is proved

With TLAPS, for every value of the constants that satisfies the named
assumptions, and without any bound on the length of behaviours:

| theorem | statement |
|---|---|
| `BookPipelineProofs!TypeCorrect`, `BooksAreFaithful`, `RowsAreFaithful`, `OnlyDeepLevelsAreLost` | of the indexer in its open environment: `TypeOK`, `BookFaithful`, `RowsFaithful`, `MissingOnlyBeyondDepth` |
| `BookPipelineProofs!ConnectorsImplementIndexer`, `PipelineTyped`, `PipelineBooksAreFaithful`, `PipelineRowsAreFaithful`, `PipelineLosesOnlyDeepLevels` | of the process: `ImplementsIndexer`, `PipelineTypeOK`, and the three properties above |
| `BookPipelineProofs!GapsAreNotSpurious` | `NoSpuriousGap` |
| `BookPipelineProofs!StrandedStays`, `BridgeMissStaysSilent`, under `LowerCaseNames` | `StrandedUntilReconnect`, `BridgeMissIsSilent` |
| `OrderBookProofs!IdsAndColumnsMatch`, `ColumnsStayInOrder`, `ColumnsImplementPriceLevels` | `OrderTypeOK`, `ColumnsInOrder`, `ImplementsPriceLevels` |
| `IngestionClientProofs!IngestionTyped`, `RowsExactlyOnce`, `NothingAfterPartialRow`, `PushedRowsAreKept` | `TypeOK`, `ExactlyOnce`, `PartialRowIsFinal`, `PushedIsKept` |
| `AuditClientProofs!AuditTyped`, `EventsExactlyOnce`, `EventsAtMostOnce` | `TypeOK`, `ExactlyOnce`, `AtMostOnceInOrder` |
| `SupervisorProofs!SupervisorTyped`, `ServiceRunsOnce`, `LateSubscriptionOnce`, `BackoffIsDue` | `TypeOK`, `OneInstance`, `OneLateSubscription`, `WaitsNoLongerThanDue` |
| `PolymarketCollectorProofs!CollectorTyped`, `NoEpochTwice`, and under `LeadTime` `WindowsAreCovered` | `TypeOK`, `OneStreamPerEpoch`, `Covered` |
| `PolymarketCollectorProofs!RowsAreOnceInOrder` | `OnceInOrder` of `CollectorWriter` |
| `ArchiverProofs!RowsMatchFiles`, `SeenThroughIsExported` | `FilesAndRowsMatch`, `SeenIsExported` |
| `SbeCodecProofs!TypeCorrect`, `CursorsAgree`, `RoundTrip`, `OnlyForeignIgnored` | `TypeOK`, `CursorOnLayout`, `DecodedIsSent`, `IgnoredIsForeign` |
| `SbeCodecProofs!BookIsWithinTick`, and under `ClockFits` `RowsAreWithinTick` | `BookWithinTick`, `RowWithinTick` of `ScaledBook` |

**Indexer.** The inductive invariant is `TypeOK /\ BookFaithful /\ CursorStamped /\
RowsFaithful`. `TypeOK` is needed because it says that the queue holds valid events only. The
heart is `DeltaFaithful`: if `b` is faithful to update `prev` and a valid delta
over `lo..hi` with `lo <= prev + 1` is applied, the result is faithful to `hi`:
a level the delta does not mention had one size throughout `lo-1..hi`, and `prev`
lies in that range. `NoGap` supplies `prev = last_seq_id` (valid deltas have a
positive `prev_seq_id`, so the escape at 0 is not taken). Truncation and the
publish depth only replace sizes by 0, which `Faithful` allows for Binance and
which does not happen for Bybit. Rows are faithful when sent
(`TicksFaithful`, `SnapshotRowsFaithful`) and never change. That a stamp tells the
update of a Bybit row is `StampTells`: neither conversion leaves i64
(`TimeAssumption`), and a time between two updates stays between them as
nanoseconds (`NanosMonotone`). A snapshot row takes its time from the cursor,
whence `CursorStamped`: the `last_ts` of a synced Bybit book is a time of the
update `last_seq_id`, its own or that of a snapshot of it.

**What truncation costs.** `OnlyDeepLevelsAreLost` takes a step in which a synced
Binance book loses a level that the exchange has. No delta removes such a level, so
it was cut, and the cut book had that many better levels. `TopOfSubBook` says
that they are levels of the exchange's book as well, since the local book shows
nothing else (`BookFaithful`): so the exchange had that many better ones.

**The connectors as an environment.** `ConnectorsImplementIndexer` is a step
simulation with the identity as its mapping. `Conn` is what makes it work: a
fetched snapshot waits only during a bootstrap and is one the exchange once had,
and a position is never beyond the exchange's version. Then what each of the three
sending actions sends is valid (`SnapshotValid`, `DeltaValid`; for Binance with
`ResolveFacts`, that `resolve_diff_sequence` passes on only diffs that reach back
to `prev_seq_id + 1`), and `SendEvent` is an `Offer`. Everything else a connector
does is a stutter, or takes a restart signal.

**No spurious gap.** `GapInv` adds a chain to that. A book is *clean* while nothing
of it was dropped and its bootstrap has not failed. For a clean book, each event in
the command channel continues the one before it, the first one continues the
cursor (`QueueInOrder`), and the source continues the last: for Bybit the
connection's position (`BybitInOrder`), for Binance the adapter's `sync_state`,
with the fetched snapshots as the link while they wait (`BinanceInOrder`). A
reconnection may take the chain backwards, but with a snapshot, and a snapshot
continues anything; the diff behind it bridges it. `OnlyUnclean` says that the
audit channel and the restart signals name no clean book; since a clean book's
next event is not a gap (`HeadInOrder`), it stays so.

**The two ways to a book that stops** need that no configured Binance name is the
symbol its events carry: `LowerCaseNames`, a hypothesis of the theorems. It is
true of `main.rs` (lower case, main.rs:107) and of the runs. From it, no restart
signal is answered and no snapshot is fetched on a running connection
(`RunningBinance`), and a diff reaches neither an unsynced cursor nor an adapter
whose bridge is behind it.

**Columns.** `OrderTypeOK /\ ColumnsInOrder` is inductive. One lemma per operation
shows that it keeps a column in order: `InsertKeepsOrder` from `FitsAt`, the
place the search returns; `RemoveKeepsOrder`, `ResizeKeepsOrder`,
`CutKeepsOrder`. They rest on what `RemoveAt` and `InsertAt` do element by
element.

`ColumnsImplementPriceLevels` maps a pair of columns to the function from levels
to sizes. That an update sets one level and leaves the others follows from
`UpdateSizes`: a column in order has a price at one place only (`SizeInIs`,
`SizeIsIn`). Truncation is where the two differ in form: the columns keep their
first `depth` entries, the abstract book the levels with fewer than `depth` better
ones. `LevelsBefore` counts by a bijection that the entry at place i has i - 1
better levels, so the two are the same (`CutIsTop`).

**Ingestion.** `TypeOK /\ ExactlyOnce /\ PartialRefuses`. `ExactlyOnce` equates
the concatenation of everything from the table to the channel with what the
channel took; each action moves one boundary in it, by associativity.
`NothingAfterPartialRow` needs that with a partial row no batch gets past its
first row, which is `PartialRefuses`: whenever `partial` holds in the middle of a
batch, that batch still has rows.

**Audit.** `ExactlyOnce` alone says nothing once an insert failed, so
`AtMostOnceInOrder` needs `LineInOrder`: table, buffer and channel together are
increasing and bounded by `sent`. A failed insert cuts a piece out of that line,
and what is left is still increasing.

**Supervisor.** `TypeOK /\ ServiceInv /\ LateInv`. `OneInstance` alone
is not inductive: `ServiceInv` ties `live` to who holds the task (the supervising
task has a handle exactly while it watches; a task that is over no longer counts;
nothing lives when a new one may be spawned). `LateInv` says where a connector is
once it has subscribed late: past the subscription, with a cancelled token that
the head of the loop will see. `BackoffIsDue`
adds `DueInv`, which says what the backoff is wherever the loop is: 1 from the
moment a connection was made, and at the head of the loop at most what one more
early end would be due.

**Collector.** `OneStreamPerEpoch` rests on `Registered`: every worker that can
still stream is in `active_tasks`, whose epochs are distinct, and while a fetch is
awaited its epoch is not among them, although the test and the insertion are on
two sides of an await. It is re-established by a restart because the session's
close leaves no worker that can stream.

`WindowsAreCovered` is about time, and has a hypothesis: `LeadTime`, that
`3 * FetchMax + Poll < PRE_WARM_TIME` and `4 * FetchMax + Poll <= Interval`. The
worst case behind the first is a manager that reads the clock just before the
pre-warming is due, fetches the running window's tokens, sleeps, and fetches two
more; the second keeps it from skipping a window. Both are tight: with one unit
less TLC finds a window that begins without its worker. The code's values are 45,
10 and intervals of 300 and more, so fetches may take 11 s. The inductive
invariant `CInv` says, while nothing has failed, that the manager has looked at
the windows of the moment it woke (`Looked`), that its timer is due in time
(`Waits`), and that the running window has its worker and the next one has it or
still has the time for two fetches (`CurInTime`, `NextInTime`). `FloorStep` is the
arithmetic modulo the interval that it takes when a window begins. In the run the
hypothesis holds (fetches 1, polls 1, pre-warming 5, windows 8).

**Collector's writer.** `WriterInv` counts: `Occ(s, x)` is how often a row occurs in
a sequence, and adds up over a concatenation. A row that did not fail occurs in
table, batch and queue together once if it was put, else not at all; a failed
one was put, is in neither batch nor queue, and at most twice in the table
(`Counted`). That a step of the writer takes rows from the front of what waits
(`Takes`) and that they then wait (`StaysInBatch`), are stored (`MovesToTable`) or
fail (`FailsOnTheWay`) are four lemmas that the actions share. For the order,
`Frames` says that the rows of a frame being put are the last ones its worker has
read, so the one put next is behind all of its worker's in the line. `FewFailed`
needs that a batch that waits is not full.

**Archiver.** The inductive invariant is `Ranges /\ HandsOn /\ Completed /\
FilesAndRowsMatch /\ Kept /\ WholeFiles /\ Through /\ SeenIsExported`. `HandsOn` says
that what a run is recording is there and of the date at work; from it follows
`FilesAndRowsMatch`. `Through` is `SeenIsExported` before its time: while a run sees
a table through on the day it began and nothing has failed, each completed day
that is surely whole is exported, still on its list, or the one being copied.
`Kept`, that TTL has taken nothing of such a day, puts it on the list in the first
place. `WholeFiles` says that a file of a day that is surely whole *now* was made
of all of it, whichever run made it; a file that was whole can lose that only to
an overwriting COPY that comes later (`Completed`: never before the day is over).

**SBE.** `TypeOK /\ Placed /\ Written /\ ReadBack /\ IgnoredIsForeign`, where
`Placed` is `CursorOnLayout` with the blocks the groups are read by. `Written`
says that everything the encoder has passed is in the frame and stays there; it
needs that no two parts of a message overlap, which `GroupsFollow`,
`LevelsFollow` and `LevelPlaces` derive from the lengths alone. `PutHolds` and
`HoldsGetBlock` connect writing with reading, `LayoutsAgree` (a theorem, not an
assumption) says that decoder and encoder have each field at one place, and
`ReadBack` follows: what the decoder has returned so far is a prefix of the
message. The index is shown not to wrap but at its start, from usize::MAX to 0.

**Scaling.** `RoundIsNear` says that `Round` is half a unit off at most, `RoundFits`
and `RoundVisible` what that means at the two ends. `BookWithinTick` is not
inductive: a price exactly between two ticks is near both, and when its size
changes, the tick it is not rounded to keeps its integers and loses its witness.
`NothingInvented` therefore says that a size in a tick is that of a price *rounded*
to the tick, or that price has left u64 since; `NothingMissing` is about a price
to which no other is rounded. `UpdatedBook` says what a message does to one tick:
nothing, when none of its prices is rounded there and fits, else the size of one
of them. Half a tick as an integer becomes half a tick as a decimal in `HalfATick`.
The stamps of a row need `ClockFits`, that the bounded time fits i64 as
nanoseconds, as real ones do until 2262; in the run, 48 fits 63.

Assumptions: `PricesAssumption`, `SizesAssumption` (prices are integers, sizes
naturals with 0 among them), `VersionAssumption`, `FiniteAssumption`,
`ContentAssumption` (the exchange's books), `CapAssumption`,
`IngestAssumption`, `AuditAssumption` (capacities are positive),
`DepthAssumption` (depths are numbers), `ConnAssumption` (only Binance and Bybit
have connectors), `TimeAssumption` of `BookFeed` (Bybit stamps a snapshot while its
update is the latest one, its updates have different milliseconds, as the 20 ms
of the topic give, and its times fit i64 as nanoseconds, until 2262; nothing is
assumed of Binance's), `StampAssumption` (the widths are numbers),
`WriterAssumption` (queue and batch are not of size 0), `ArchiverAssumption` (a
`_price` table belongs to a table of the registry, days are kept for at least one),
`RunAssumption` (waits and thresholds), `TimeAssumption` of `PolymarketCollector`
(its intervals; the window is positive), `MessageAssumption` (a message
fits the widths of its lengths and counts), `ScalingAssumption` and
`VenueAssumption` (scales are positive, mantissas bounded, exponents negative),
`PowersOfTwo` and `PowersOfTen` (2 to the n + 1 is twice 2 to the n; the powers of
ten in use are positive integers: arithmetic the provers do not know, about the
constants of the run). TLC evaluates them in the runs. No more is assumed of the
constants; in particular the depths may be in any relation. `LowerCaseNames`,
`LeadTime` and `ClockFits` are not assumed of the modules: they stand in the
theorems that need them.

**Only model-checked:** everything temporal under fairness (`Resyncs`, `CatchesUp`,
`Forwarded`, `Recorded`, `ServiceComesBack`, `Exits`, `Arrives`), out of the prover's
reach. Every invariant, action property and refinement that a passing run checks
is a theorem.

## 5. Fairness

- *Tasks run.* tokio polls a task that is ready: weak fairness of the indexer's
  `Process`, of the receivers, and of the connector's steps.
- *The exchange answers.* A subscription that was sent is served, and a REST
  request that ends with an answer is delivered. Nothing makes the exchange's
  books change, a request fail, or a connection end.
- *Ingestion.* Weak fairness only. The select is `biased` towards the channel, so
  `Tick` is possible only with an empty channel; `Forwarded` holds because a
  channel that is never empty fills batches.
- *Audit.* Its select picks at random among ready arms, so `Recv` and `Tick` are
  strongly fair: one that is ready again and again is taken. A connection is to
  be had infinitely often, if asked for infinitely often
  (`SF(Acquire /\ pc' = "drain")`); that is an assumption about Postgres, and
  without it `Recorded` cannot hold.

- *Supervisor.* Ready tasks run and timers fire: weak fairness. `handle_connection`
  selects at random, so a cancelled token is seen even if restart signals keep
  coming: strong fairness of `ServingCancelled`. That a connection attempt, a
  subscription or a bootstrap ends at all is assumed of the network, since
  neither `connect_ws` nor the REST client has a time limit; without it `Exits`
  does not hold. Nothing makes a connection end, a task panic or Ctrl-C come.
- *Collector.* No fairness: its properties are about time, and `Tick` waits for
  whatever timer is due.

- *Collector's writer.* asyncio runs what is ready: weak fairness of each worker's
  `Put`, of the writer's steps and of `run`. A waiting `put` may be overtaken by
  the other worker; that ends because a worker reads finitely many rows, which is
  the bound `MaxRows` and not a promise of `asyncio.Queue` (whose waiters are
  served in order).
- *Archiver, scaling, SBE.* No fairness: safety only.

Nothing assumes that a request to QuestDB succeeds. That failures come to an end
is `MaxFails` of `collector_writer`: each failure ends a task, and with failures
for ever there is nothing to arrive.

## 6. Assumptions about the outside

- *tokio* channels are FIFO; `try_send` on a full one fails; a broadcast receiver
  that is behind by more than the capacity loses the oldest messages.
- *Exchanges* number the states of a book, frames of one subscription are in
  order and without holes, a Bybit `u` grows by one with each frame, and a Binance
  diff covers the ids `U..u`. What happens when they do not is not modelled.
- *A book of Bybit's topic* (`orderbook.50`) is what `Content` stands for: levels
  beyond 50 are not part of it.
- *questdb-rs.* `Buffer` refuses a column (for instance a negative timestamp)
  without removing what it already wrote of that row, and refuses to begin a row
  behind an unfinished one; `Sender::flush` clears the buffer when it succeeds
  and leaves it when it fails.
- *Postgres.* `execute` that returns an error may have stored its row.
- *asyncio and aiohttp.* A task runs alone between two awaits; a timer that is due
  runs before time goes on, unless a task keeps the loop; a coroutine that raises
  before it suspends does not give up the loop; closing a session ends its
  connections, and `ws_connect` on a closed session raises `RuntimeError` at once.
- *asyncio's queue.* `wait_for` on `Queue.get` that times out or is cancelled takes
  no row out of it (Python 3.12).
- *questdb's Python `Sender`.* One request for one table is stored as a whole or
  not at all; a failed one leaves nothing in the sender's own buffer.
- *QuestDB's COPY* writes the file before it answers, and either replaces a file
  or answers that it exists (`Overwrites`; the run has the second, which
  archiver.py:113 is written for). The answer may be lost. A file shows when it is
  complete.
- *QuestDB's TTL* drops a partition, an hour or a day, some time after its last
  row is old enough, and a day that is over gets no more rows.
- *psycopg* returns a `DATE` as `datetime.date`.
- *Numbers.* `Decimal::round` takes a tie to the even neighbour; i64 arithmetic
  wraps in a release build. Binance stamps its events in microseconds, Bybit in
  milliseconds.
- *tokio tasks.* An aborted task is dropped at its next await, not at the call.
- *Channels never close* while the process runs: `main` holds a sender of each.

## 7. What is not modelled

- The text of JSON frames, and frames that are cut short: reading behind
  their end panics (sbe/mod.rs:63), which ends the connector like any panic of a
  worker (`Panics` in `ConnectorRun`).
- `parse_snapshot_event`, beyond the decoding of its frame: the adapter does not
  subscribe to that template.
- Exponents below -28, for which `Decimal` panics.
- The OKX adapter, which `main` does not start; `hyperliquid.rs`, which is a TODO;
  the in-memory cache, which nothing uses.
- The columns of the tables: a snapshot row has no exchange in QuestDB
  (001_init_up.sql:24-30), so the books of two exchanges for one symbol share a
  table and cannot be told apart there; the models stop at the row.
- The text of keys: `symbol_key` joins exchange and symbol by a colon, and two
  pairs whose texts join to the same one would share a book. The names of
  `main.rs` do not.
- Telemetry, configuration, containers, migrations: no state that changes.
- `best_bid` and `best_ask`, which only read.
- Of the collector: topics whose request failed while others' succeeded, the
  fields of a row, a frame given up in the middle at a malformed change, the
  heartbeat, the deprecated csv writer, the formatting of slugs.
- Of the archiver: row counts, which nothing reads, and a COPY that goes on after
  it has answered.

## 8. What is left

The whole way from an exchange to the databases is modelled for both programs,
with the archiver behind it. What could come next, in this order:

1. Topics of one window: `fetch_mapped_tokens` with some of its requests failing,
   and an abstract specification of the collector (a window is streamed by one
   stream, or by none) that `PolymarketCollector` implements.
2. An abstract specification of the two clients and of `CollectorWriter` (rows go
   into a table once, in order, or are given up) that all three implement.
3. Malformed and truncated frames, on `SbeCodec`.
