------------------------- MODULE BookPipelineProofs -------------------------
(***************************************************************************)
(* The order-book half of the process, for any exchanges, instruments,     *)
(* books, depths and channel capacities.                                   *)
(*                                                                         *)
(* First the indexer, whatever valid events reach it: it never holds, and  *)
(* never publishes, a level the exchange did not have.  The inductive      *)
(* invariant joins the ranges of the variables (in which every queued      *)
(* event is one the exchange could send) with BookFaithful, which speaks   *)
(* of books, CursorStamped, which speaks of the times in the cursors, and  *)
(* RowsFaithful, which speaks of what left the books earlier.              *)
(***************************************************************************)
EXTENDS BookPipeline, SequenceTheorems, FiniteSetTheorems, TLAPS

(* What Bybit may write as the time of its update v.                       *)
TimesOf(k, v) == {Time[k][v], SnapshotTime[k][v]}

CursorStamped ==
    \A k \in Keys : cursor[k].state = "Synced" /\ ExchangeOf(k) # "binance"
        => cursor[k].last_ts \in TimesOf(k, cursor[k].last_seq_id)

IInv == TypeOK /\ BookFaithful /\ CursorStamped /\ RowsFaithful

-----------------------------------------------------------------------------
(* Channels.                                                               *)

(* try_send of one message keeps a channel within its type and capacity.   *)
LEMMA TrySendType ==
    ASSUME NEW S, NEW q \in Seq(S), NEW m \in S, NEW cap \in Nat, Len(q) <= cap
    PROVE  /\ TrySend(q, cap, m) \in Seq(S)
           /\ Len(TrySend(q, cap, m)) <= cap
BY DEF TrySend, HasRoom

(* try_send of many keeps it too, and what is in the channel afterwards    *)
(* was there or is one of the messages.                                    *)
LEMMA TrySendAllType ==
    ASSUME NEW S, NEW q \in Seq(S), NEW s \in Seq(S), NEW cap \in Nat, Len(q) <= cap,
           NEW r, r = TrySendAll(q, cap, s)
    PROVE  /\ r \in Seq(S)
           /\ Len(r) <= cap
           /\ \A i \in 1 .. Len(r) : \/ i <= Len(q) /\ r[i] = q[i]
                                     \/ \E j \in 1 .. Len(s) : r[i] = s[j]
<1> DEFINE n == IF Len(s) <= cap - Len(q) THEN Len(s) ELSE cap - Len(q)
<1> DEFINE t == SubSeq(s, 1, n)
<1>1. n \in 0 .. Len(s) /\ n + Len(q) <= cap
  OBVIOUS
<1>2. t \in Seq(S) /\ Len(t) = n /\ \A i \in 1 .. n : t[i] = s[i]
  BY <1>1
<1>3. r = q \o t
  BY DEF TrySendAll
<1>4. r \in Seq(S) /\ Len(r) = Len(q) + n
  BY <1>1, <1>2, <1>3
<1>5. \A i \in 1 .. Len(r) : r[i] = IF i <= Len(q) THEN q[i] ELSE t[i - Len(q)]
  BY <1>1, <1>2, <1>3
<1> HIDE DEF n, t
<1>6. ASSUME NEW i \in 1 .. Len(r)
      PROVE  \/ i <= Len(q) /\ r[i] = q[i]
             \/ \E j \in 1 .. Len(s) : r[i] = s[j]
  <2>1. CASE i <= Len(q)
    BY <2>1, <1>5
  <2>2. CASE ~(i <= Len(q))
    <3>1. i - Len(q) \in 1 .. n /\ Len(q) \in Nat
      BY <2>2, <1>1, <1>4
    <3>2. r[i] = s[i - Len(q)] /\ i - Len(q) \in 1 .. Len(s)
      BY <2>2, <3>1, <1>1, <1>2, <1>5
    <3>3. QED
      BY <3>2
  <2>3. QED
    BY <2>1, <2>2
<1>7. Len(r) <= cap
  BY <1>1, <1>4
<1>8. QED
  BY <1>4, <1>6, <1>7

-----------------------------------------------------------------------------
(* Rows.                                                                   *)

(* An order in which the rows of a finite set are sent is a sequence of    *)
(* those rows.                                                             *)
LEMMA OrderType ==
    ASSUME NEW R, IsFiniteSet(R), NEW s \in SetToSeqs(R)
    PROVE  s \in Seq(R)
<1>1. Cardinality(R) \in Nat
  BY FS_CardinalityType
<1>2. s \in [1 .. Cardinality(R) -> R]
  BY DEF SetToSeqs
<1>3. QED
  BY <1>1, <1>2

(* A set given by a function on a finite set is finite.                    *)
LEMMA ImageFinite ==
    ASSUME NEW S, IsFiniteSet(S), NEW f, DOMAIN f = S, f = [x \in S |-> f[x]]
    PROVE  IsFiniteSet({f[x] : x \in S})
<1> DEFINE T == {f[x] : x \in S}
<1>1. f \in Surjection(S, T)
  BY DEF Surjection
<1>2. QED
  BY <1>1, FS_Surjection

(* What is true of a row stays true, and RowsFaithful with the channel.    *)
LEMMA RowsAfter ==
    ASSUME \A i \in 1 .. Len(ingestion') : RowFaithful(ingestion'[i])
    PROVE  RowsFaithful'
BY Zenon DEF RowsFaithful, RowFaithful, UpdatesOf, StampedAt, Nanos

LEMMA RowsStay ==
    ASSUME RowsFaithful, UNCHANGED ingestion
    PROVE  RowsFaithful'
BY RowsAfter, Zenon DEF RowsFaithful

(* What Publish leaves in the ingestion channel.                           *)
LEMMA PublishType ==
    ASSUME NEW rows, IsFiniteSet(rows), rows \subseteq Rows,
           ingestion \in Seq(Rows), Len(ingestion) <= IngestCap,
           RowsFaithful, \A row \in rows : RowFaithful(row),
           Publish(rows)
    PROVE  ingestion' \in Seq(Rows) /\ Len(ingestion') <= IngestCap /\ RowsFaithful'
<1>1. PICK s \in SetToSeqs(rows) : ingestion' = TrySendAll(ingestion, IngestCap, s)
  BY DEF Publish
<1>2. s \in Seq(rows) /\ s \in Seq(Rows)
  BY OrderType
<1>3. IngestCap \in Nat
  BY CapAssumption
<1>4. /\ ingestion' \in Seq(Rows)
      /\ Len(ingestion') <= IngestCap
      /\ \A i \in 1 .. Len(ingestion') :
            \/ i <= Len(ingestion) /\ ingestion'[i] = ingestion[i]
            \/ \E j \in 1 .. Len(s) : ingestion'[i] = s[j]
  <2>1. ingestion \in Seq(Rows) /\ Len(ingestion) <= IngestCap
    OBVIOUS
  <2>2. s \in Seq(Rows)
    BY <1>2
  <2> DEFINE new == TrySendAll(ingestion, IngestCap, s)
  <2>3. /\ new \in Seq(Rows)
        /\ Len(new) <= IngestCap
        /\ \A i \in 1 .. Len(new) : \/ i <= Len(ingestion) /\ new[i] = ingestion[i]
                                    \/ \E j \in 1 .. Len(s) : new[i] = s[j]
    <3> HIDE DEF new
    <3>1. new = TrySendAll(ingestion, IngestCap, s)
      BY DEF new
    <3>2. QED
      BY ONLY <2>1, <2>2, <1>3, <3>1, TrySendAllType
  <2>4. ingestion' = new
    BY <1>1
  <2>5. QED
    BY <2>3, <2>4
<1>5. \A i \in 1 .. Len(ingestion') : RowFaithful(ingestion'[i])
  <2> SUFFICES ASSUME NEW i \in 1 .. Len(ingestion') PROVE RowFaithful(ingestion'[i])
    OBVIOUS
  <2>1. CASE i <= Len(ingestion) /\ ingestion'[i] = ingestion[i]
    BY <2>1, <1>4 DEF RowsFaithful
  <2>2. CASE \E j \in 1 .. Len(s) : ingestion'[i] = s[j]
    BY <2>2, <1>2
  <2>3. QED
    BY <2>1, <2>2, <1>4
<1>6. QED
  BY <1>4, <1>5, RowsAfter
-----------------------------------------------------------------------------
(* Books.                                                                  *)

(* Cutting a book to a depth leaves a level alone or removes it.           *)
LEMMA TopOfType ==
    ASSUME NEW b \in Books, NEW depth
    PROVE  /\ TopOf(b, depth) \in Books
           /\ \A l \in Levels : TopOf(b, depth)[l] \in {0, b[l]}
BY SizesAssumption DEF TopOf, Books

LEMMA LocalDepthType ==
    ASSUME NEW k, NEW b \in Books
    PROVE  /\ LocalDepth(k, b) \in Books
           /\ \A l \in Levels : LocalDepth(k, b)[l] \in {0, b[l]}
           /\ ExchangeOf(k) # "binance" => LocalDepth(k, b) = b
BY TopOfType DEF LocalDepth

LEMMA ContentType ==
    ASSUME NEW k \in Keys, NEW v \in Versions
    PROVE  Content[k][v] \in Books
BY ContentAssumption

(* Loading a snapshot into a cleared book gives the book it was taken of.  *)
LEMMA SnapshotApplied ==
    ASSUME NEW k \in Keys, NEW v \in Versions
    PROVE  ApplyLevels(EmptyBook, SnapshotLevels(k, v)) = SnapshotBook(k, v)
<1> DEFINE p == SnapshotBook(k, v)
<1> DEFINE a == ApplyLevels(EmptyBook, SnapshotLevels(k, v))
<1>1. p \in Books
  BY ContentType, LocalDepthType DEF SnapshotBook
<1>2. \A l \in Levels : p[l] \in Nat
  BY <1>1, SizesAssumption DEF Books
<1>3. \A l \in Levels : a[l] = IF p[l] > 0 THEN p[l] ELSE 0
  BY DEF ApplyLevels, SnapshotLevels, EmptyBook
<1>4. \A l \in Levels : a[l] = p[l]
  BY <1>2, <1>3
<1>5. a = [l \in Levels |-> a[l]]
  BY DEF ApplyLevels
<1>6. QED
  BY <1>1, <1>4, <1>5 DEF Books

(* A snapshot, loaded into a cleared book and truncated, shows nothing but *)
(* the exchange's book.                                                    *)
LEMMA SnapshotFaithful ==
    ASSUME NEW k \in Keys, NEW v \in Versions,
           NEW b, b = LocalDepth(k, ApplyLevels(EmptyBook, SnapshotLevels(k, v)))
    PROVE  b \in Books /\ Faithful(k, v, b)
<1> DEFINE c == Content[k][v]
<1> DEFINE p == SnapshotBook(k, v)
<1>1. c \in Books
  BY ContentType
<1>2. /\ p \in Books
      /\ \A l \in Levels : p[l] \in {0, c[l]}
      /\ ExchangeOf(k) # "binance" => p = c
  BY <1>1, LocalDepthType DEF SnapshotBook
<1>3. ApplyLevels(EmptyBook, SnapshotLevels(k, v)) = p
  BY SnapshotApplied
<1>4. /\ b \in Books
      /\ \A l \in Levels : b[l] \in {0, p[l]}
      /\ ExchangeOf(k) # "binance" => b = p
  BY <1>2, <1>3, LocalDepthType
<1>5. QED
  BY <1>2, <1>4 DEF Faithful

(* The heart of the gap check.  A delta of the updates lo..hi reaches back *)
(* to prev + 1 or further; applied to a book that is faithful to prev it   *)
(* gives one that is faithful to hi, because a level it does not mention   *)
(* has the same size in every state from lo - 1 to hi, prev among them.    *)
LEMMA DeltaFaithful ==
    ASSUME NEW k \in Keys, NEW lo \in Versions, NEW prev \in Versions, NEW hi \in Versions,
           lo <= prev + 1, prev < hi,
           NEW old \in Books, Faithful(k, prev, old),
           NEW b, b = LocalDepth(k, ApplyLevels(old, DeltaLevels(k, lo, hi)))
    PROVE  b \in Books /\ Faithful(k, hi, b)
<1> DEFINE c(v) == Content[k][v]
<1> DEFINE n == ApplyLevels(old, DeltaLevels(k, lo, hi))
<1>1. c(prev) \in Books /\ c(hi) \in Books
  BY ContentType
<1>2. prev \in (lo - 1) .. hi /\ hi \in (lo - 1) .. hi
  BY DEF Versions
<1>3. \A l \in Levels : l \notin Touched(k, lo, hi) => c(prev)[l] = c(hi)[l]
  BY <1>2 DEF Touched
<1>4. \A l \in Levels : n[l] = IF l \in Touched(k, lo, hi) THEN c(hi)[l] ELSE old[l]
  BY DEF ApplyLevels, DeltaLevels
<1>5. n = [l \in Levels |-> n[l]]
  BY DEF ApplyLevels
<1>6. n \in Books
  BY <1>1, <1>4, <1>5 DEF Books
<1>7. \A l \in Levels : n[l] \in {0, c(hi)[l]}
  BY <1>3, <1>4 DEF Faithful
<1>8. ExchangeOf(k) # "binance" => n = c(hi)
  <2> SUFFICES ASSUME ExchangeOf(k) # "binance" PROVE n = c(hi)
    OBVIOUS
  <2>1. old = c(prev)
    BY DEF Faithful
  <2>2. \A l \in Levels : n[l] = c(hi)[l]
    BY <2>1, <1>3, <1>4
  <2>3. QED
    BY <2>2, <1>1, <1>6 DEF Books
<1> HIDE DEF n
<1>9. /\ b \in Books
      /\ \A l \in Levels : b[l] \in {0, n[l]}
      /\ ExchangeOf(k) # "binance" => b = n
  BY <1>6, LocalDepthType DEF n
<1>10. QED
  BY <1>7, <1>8, <1>9 DEF Faithful
-----------------------------------------------------------------------------
(* Events and rows.                                                        *)

(* What a valid event is, read off its fields.                             *)
LEMMA EventCases ==
    ASSUME NEW ev \in ValidEvents
    PROVE  /\ ev.key \in Keys
           /\ ev.seq_id \in Versions
           /\ ev.is_snapshot => /\ ev.levels = SnapshotLevels(ev.key, ev.seq_id)
                                /\ ev.timestamp = SnapshotTime[ev.key][ev.seq_id]
           /\ ~ev.is_snapshot =>
                 /\ ev.timestamp = EventTime(ExchangeOf(ev.key), Time[ev.key][ev.seq_id])
                 /\ ev.prev_seq_id \in Versions
                 /\ ev.prev_seq_id < ev.seq_id
                 /\ \E lo \in Versions : /\ lo <= ev.prev_seq_id + 1
                                         /\ ev.levels = DeltaLevels(ev.key, lo, ev.seq_id)
<1>1. CASE ev \in ValidSnapshots
  BY <1>1 DEF ValidSnapshots, SnapshotEvent
<1>2. CASE ev \in ValidDeltas
  <2>1. PICK k \in Keys, lo \in Versions, prev \in Versions, hi \in Versions :
            /\ lo <= prev + 1
            /\ prev < hi
            /\ ev = DeltaEvent(k, lo, prev, hi)
    BY <1>2 DEF ValidDeltas
  <2>2. QED
    BY <2>1 DEF DeltaEvent
<1>3. QED
  BY <1>1, <1>2 DEF ValidEvents

(* A gap is exactly a delta that does not continue the cursor: no update   *)
(* id of the exchange is 0, which the code's guard exempts.                *)
LEMMA NoGap ==
    ASSUME NEW ev \in ValidEvents, ~ev.is_snapshot, ~Gap(ev)
    PROVE  ev.prev_seq_id = cursor[ev.key].last_seq_id
BY EventCases DEF Gap, Versions

(* A nanosecond of an earlier millisecond is an earlier one.               *)
LEMMA NanosMonotone ==
    ASSUME NEW a \in Nat, NEW b \in Nat
    PROVE  /\ Nanos(a) \in Nat
           /\ a <= b => Nanos(a) <= Nanos(b)
           /\ a < b => Nanos(a) < Nanos(b)
<1>1. Kilo \in Nat /\ Kilo >= 1
  BY StampAssumption
<1> DEFINE x == a * Kilo
<1> DEFINE y == b * Kilo
<1>2. x \in Nat /\ y \in Nat /\ (a <= b => x <= y) /\ (a < b => x < y)
  BY <1>1
<1> HIDE DEF x, y
<1>3. x * Kilo \in Nat /\ (x <= y => x * Kilo <= y * Kilo) /\ (x < y => x * Kilo < y * Kilo)
  BY <1>1, <1>2
<1>4. Nanos(a) = x * Kilo /\ Nanos(b) = y * Kilo
  BY DEF Nanos, x, y
<1>5. QED
  BY <1>2, <1>3, <1>4

(* The timestamp of an event is a natural number, of Bybit one of its two. *)
LEMMA TimestampOf ==
    ASSUME NEW ev \in ValidEvents
    PROVE  /\ ev.timestamp \in Nat
           /\ ExchangeOf(ev.key) # "binance" => ev.timestamp \in TimesOf(ev.key, ev.seq_id)
<1>1. ev.key \in Keys /\ ev.seq_id \in Versions
  BY EventCases
<1>2. Time[ev.key][ev.seq_id] \in Nat /\ SnapshotTime[ev.key][ev.seq_id] \in Nat
  BY <1>1, TimeAssumption
<1>3. Time[ev.key][ev.seq_id] * Kilo \in Nat
  BY <1>2, StampAssumption
<1>4. QED
  BY <1>2, <1>3, EventCases DEF EventTime, TimesOf

(* What the conversions make of the time of an update of Bybit is a        *)
(* nanosecond in which the book stood at that update.                      *)
LEMMA StampTells ==
    ASSUME NEW k \in Keys, ExchangeOf(k) # "binance", NEW v \in Versions,
           NEW ts \in TimesOf(k, v)
    PROVE  v \in StampedAt(k, TickStamp(ts)) /\ v \in StampedAt(k, SnapshotStamp(ts))
<1> DEFINE a == Time[k][v]
<1> DEFINE b == SnapshotTime[k][v]
<1>1. /\ a \in Nat /\ b \in Nat /\ a <= b /\ Nanos(b) <= MaxInt64
      /\ v < MaxVersion => Time[k][v + 1] \in Nat /\ b < Time[k][v + 1]
  BY TimeAssumption, VersionAssumption DEF Versions
<1>2. ts \in Nat /\ a <= ts /\ ts <= b
  BY <1>1 DEF TimesOf
<1> HIDE DEF a, b
<1>3. Nanos(ts) \in Nat /\ Nanos(a) <= Nanos(ts) /\ Nanos(ts) <= MaxInt64
  <2>1. Nanos(a) \in Nat /\ Nanos(b) \in Nat /\ Nanos(ts) \in Nat
    BY <1>1, <1>2, NanosMonotone
  <2>2. Nanos(a) <= Nanos(ts) /\ Nanos(ts) <= Nanos(b)
    BY <1>1, <1>2, NanosMonotone
  <2>3. QED
    BY <2>1, <2>2, <1>1, StampAssumption
<1>4. v < MaxVersion => Nanos(ts) < Nanos(Time[k][v + 1])
  <2> SUFFICES ASSUME v < MaxVersion PROVE Nanos(ts) < Nanos(Time[k][v + 1])
    OBVIOUS
  <2>1. Time[k][v + 1] \in Nat /\ ts < Time[k][v + 1]
    BY <1>1, <1>2
  <2>2. QED
    BY <2>1, <1>2, NanosMonotone
<1>5. TickStamp(ts) = Nanos(ts)
  <2> DEFINE n == Nanos(ts)
  <2>1. n \in Nat /\ n <= MaxInt64 /\ MaxInt64 \in Nat
    BY <1>3, StampAssumption
  <2> HIDE DEF n
  <2>2. (n + MaxInt64 + 1) % (2 * (MaxInt64 + 1)) = n + MaxInt64 + 1
    BY <2>1
  <2>3. Wrapped(n) = n
    BY <2>1, <2>2 DEF Wrapped
  <2>4. QED
    BY <2>3 DEF n, TickStamp
<1>6. SnapshotStamp(ts) = Nanos(ts)
  BY <1>3, StampAssumption DEF SnapshotStamp
<1>7. v \in StampedAt(k, Nanos(ts))
  BY <1>3, <1>4 DEF StampedAt, a
<1>8. QED
  BY <1>5, <1>6, <1>7

(* Both stamps are integers.                                               *)
LEMMA StampType ==
    ASSUME NEW ts \in Nat
    PROVE  TickStamp(ts) \in Int /\ SnapshotStamp(ts) \in Int
<1>1. Nanos(ts) \in Nat /\ MaxInt64 \in Nat
  BY NanosMonotone, StampAssumption
<1>2. ASSUME NEW n \in Nat PROVE Wrapped(n) \in Int
  <2>1. 2 * (MaxInt64 + 1) \in Nat /\ 2 * (MaxInt64 + 1) > 0 /\ n + MaxInt64 + 1 \in Nat
    BY StampAssumption
  <2>2. (n + MaxInt64 + 1) % (2 * (MaxInt64 + 1)) \in Int
    BY <2>1
  <2>3. QED
    BY <2>2, StampAssumption DEF Wrapped
<1>3. QED
  BY <1>1, <1>2 DEF TickStamp, SnapshotStamp

LEMMA LevelsFinite == IsFiniteSet(Levels)
<1>1. IsFiniteSet(Sides)
  <2>1. IsFiniteSet({"bid"})
    BY FS_Singleton
  <2>2. Sides = {"bid"} \cup {"ask"}
    BY DEF Sides
  <2>3. QED
    BY <2>1, <2>2, FS_AddElement
<1>2. QED
  BY <1>1, PricesAssumption, FS_Product DEF Levels

(* The rows emit_ticks makes of a delta are true rows, finitely many.      *)
LEMMA TicksFaithful ==
    ASSUME NEW ev \in ValidEvents, ~ev.is_snapshot, NEW b
    PROVE  /\ IsFiniteSet(Ticks(ev, b))
           /\ Ticks(ev, b) \subseteq Rows
           /\ \A row \in Ticks(ev, b) : RowFaithful(row)
<1>1. PICK lo \in Versions : ev.levels = DeltaLevels(ev.key, lo, ev.seq_id)
  BY EventCases
<1> DEFINE c == Content[ev.key][ev.seq_id]
<1>2. /\ DOMAIN ev.levels \subseteq Levels
      /\ \A l \in DOMAIN ev.levels : ev.levels[l] = c[l]
  BY <1>1 DEF DeltaLevels, Touched
<1>3. ev.key \in Keys /\ ev.seq_id \in Versions /\ c \in Books
  BY EventCases, ContentType
<1> DEFINE shown == IF ExchangeOf(ev.key) = "binance"
                    THEN {l \in DOMAIN ev.levels : TopOf(b, BINANCE_PUBLISH_DEPTH)[l] > 0}
                    ELSE DOMAIN ev.levels
<1>4. shown \subseteq DOMAIN ev.levels /\ IsFiniteSet(shown)
  BY <1>2, LevelsFinite, FS_Subset
<1> DEFINE row(l) == TickRow(ev.key, ev.seq_id, ev.timestamp, l, ev.levels[l])
<1>5. Ticks(ev, b) = {row(l) : l \in shown}
  BY DEF Ticks
<1>6. IsFiniteSet({row(l) : l \in shown})
  <2> DEFINE f == [l \in shown |-> row(l)]
  <2>1. IsFiniteSet({f[l] : l \in shown})
    <3> HIDE DEF shown, row
    <3> QED
      BY <1>4, ImageFinite
  <2>2. {f[l] : l \in shown} = {row(l) : l \in shown}
    OBVIOUS
  <2>3. QED
    BY <2>1, <2>2
<1>7. \A l \in shown : row(l) \in Rows /\ RowFaithful(row(l))
  <2> SUFFICES ASSUME NEW l \in shown PROVE row(l) \in Rows /\ RowFaithful(row(l))
    OBVIOUS
  <2>1. l \in Levels /\ ev.levels[l] = c[l] /\ c[l] \in Sizes
    BY <1>2, <1>3, <1>4 DEF Books
  <2> DEFINE stamp == TickStamp(ev.timestamp)
  <2>2. stamp \in Int
    BY TimestampOf, StampType
  <2>3. row(l) = [type |-> "Tick", key |-> ev.key, of |-> ev.seq_id, stamp |-> stamp,
                  level |-> l, size |-> c[l]]
    BY <2>1 DEF TickRow
  <2>4. ev.seq_id \in UpdatesOf(row(l))
    <3>1. CASE ExchangeOf(ev.key) = "binance"
      BY <2>3, <3>1 DEF UpdatesOf
    <3>2. CASE ExchangeOf(ev.key) # "binance"
      <4>1. ev.seq_id \in StampedAt(ev.key, stamp)
        BY <3>2, <1>3, TimestampOf, StampTells
      <4>2. UpdatesOf(row(l)) = StampedAt(ev.key, stamp)
        BY <2>3, <3>2 DEF UpdatesOf
      <4>3. QED
        BY <4>1, <4>2
    <3>3. QED
      BY <3>1, <3>2
  <2> HIDE DEF stamp, row
  <2>5. row(l) \in Rows
    BY <2>1, <2>2, <2>3, <1>3 DEF Rows, TickRows
  <2>6. RowFaithful(row(l))
    BY <2>3, <2>4 DEF RowFaithful, c
  <2>7. QED
    BY <2>5, <2>6
<1>8. QED
  BY <1>5, <1>6, <1>7
(* The rows of emit_snapshots are true because the books are.              *)
LEMMA SnapshotRowsFaithful ==
    ASSUME TypeOK, BookFaithful, CursorStamped
    PROVE  /\ IsFiniteSet(SnapshotRows)
           /\ SnapshotRows \subseteq Rows
           /\ \A row \in SnapshotRows : RowFaithful(row)
<1> DEFINE synced == {k \in Keys : cursor[k].state = "Synced" /\ cursor[k].last_ts # 0}
<1> DEFINE row(k) == SnapshotRow(k, cursor[k].last_seq_id, cursor[k].last_ts,
                                 TopOf(book[k], PublishDepth(k)))
<1>1. SnapshotRows = {row(k) : k \in synced}
  BY DEF SnapshotRows
<1>2. IsFiniteSet({row(k) : k \in synced})
  <2> DEFINE f == [k \in synced |-> row(k)]
  <2>1. IsFiniteSet(synced)
    BY FiniteAssumption, FS_Subset
  <2>2. IsFiniteSet({f[k] : k \in synced})
    <3> HIDE DEF synced, row
    <3> QED
      BY <2>1, ImageFinite
  <2>3. {f[k] : k \in synced} = {row(k) : k \in synced}
    OBVIOUS
  <2>4. QED
    BY <2>2, <2>3
<1>3. ASSUME NEW k \in synced
      PROVE  row(k) \in Rows /\ RowFaithful(row(k))
  <2> DEFINE v == cursor[k].last_seq_id
  <2> DEFINE t == TopOf(book[k], PublishDepth(k))
  <2>1. k \in Keys /\ v \in Versions /\ book[k] \in Books /\ Faithful(k, v, book[k])
    BY DEF TypeOK, BookFaithful
  <2>2. t \in Books /\ \A l \in Levels : t[l] \in {0, book[k][l]}
    BY <2>1, TopOfType
  <2>3. \A l \in Levels : t[l] \in {0, Content[k][v][l]}
    BY <2>1, <2>2 DEF Faithful
  <2>4. ExchangeOf(k) # "binance" => t = TopOf(Content[k][v], DEFAULT_PUBLISH_DEPTH)
    BY <2>1 DEF Faithful, PublishDepth
  <2> DEFINE stamp == SnapshotStamp(cursor[k].last_ts)
  <2>5. stamp \in Int
    <3>1. cursor[k].last_ts \in Nat
      BY <2>1 DEF TypeOK, Cursors
    <3>2. QED
      BY <3>1, StampType
  <2>6. row(k) = [type |-> "Snapshot", key |-> k, of |-> v, stamp |-> stamp, levels |-> t]
    BY DEF SnapshotRow
  <2>7. v \in UpdatesOf(row(k))
    <3>1. CASE ExchangeOf(k) = "binance"
      BY <2>6, <3>1 DEF UpdatesOf
    <3>2. CASE ExchangeOf(k) # "binance"
      <4>1. cursor[k].last_ts \in TimesOf(k, v)
        BY <2>1, <3>2 DEF CursorStamped
      <4>2. v \in StampedAt(k, stamp)
        BY <4>1, <2>1, <3>2, StampTells
      <4>3. UpdatesOf(row(k)) = StampedAt(k, stamp)
        BY <2>6, <3>2 DEF UpdatesOf
      <4>4. QED
        BY <4>2, <4>3
    <3>3. QED
      BY <3>1, <3>2
  <2> HIDE DEF v, t, stamp, row
  <2>8. row(k) \in Rows
    BY <2>1, <2>2, <2>5, <2>6 DEF Rows, SnapRows
  <2>9. RowFaithful(row(k))
    BY <2>3, <2>4, <2>6, <2>7 DEF RowFaithful
  <2>10. QED
    BY <2>8, <2>9
<1>4. QED
  BY <1>1, <1>2, <1>3

-----------------------------------------------------------------------------
(* The inductive invariant.                                                *)

LEMMA InvInit == Init => IInv
<1> SUFFICES ASSUME Init PROVE IInv
  OBVIOUS
<1>1. EmptyBook \in Books
  BY SizesAssumption DEF EmptyBook, Books
<1>2. TypeOK
  BY <1>1, CapAssumption DEF Init, TypeOK, Cursors, BookState
<1>3. BookFaithful /\ CursorStamped /\ RowsFaithful
  BY DEF Init, BookFaithful, CursorStamped, RowsFaithful
<1>4. QED
  BY <1>2, <1>3 DEF IInv

(* The command at the head of the channel, and the channel without it.     *)
LEMMA HeadCommand ==
    ASSUME TypeOK, cmdQ # <<>>
    PROVE  /\ Head(cmdQ) \in Commands
           /\ Tail(cmdQ) \in Seq(Commands) /\ Len(Tail(cmdQ)) <= CmdCap
           /\ Head(cmdQ).type = "Update" => Head(cmdQ).event \in ValidEvents
<1>1. cmdQ \in Seq(Commands) /\ Len(cmdQ) <= CmdCap /\ CmdCap \in Nat
  BY CapAssumption DEF TypeOK
<1>2. Head(cmdQ) \in Commands
  BY <1>1
<1>3. Tail(cmdQ) \in Seq(Commands) /\ Len(Tail(cmdQ)) <= CmdCap
  BY <1>1
<1>4. QED
  BY <1>2, <1>3 DEF Commands, Update, TakeSnapShot

(* A book and cursor that change together, the rest of the books as before.*)
LEMMA BookStep ==
    ASSUME TypeOK, BookFaithful, CursorStamped,
           NEW ev \in ValidEvents, NEW b \in Books, Faithful(ev.key, ev.seq_id, b),
           book' = [book EXCEPT ![ev.key] = b],
           cursor' = [cursor EXCEPT ![ev.key] = At(ev)]
    PROVE  /\ cursor' \in [Keys -> Cursors]
           /\ book' \in [Keys -> Books]
           /\ BookFaithful' /\ CursorStamped'
<1> DEFINE k == ev.key
<1> DEFINE v == ev.seq_id
<1>0. k \in Keys /\ v \in Versions
  BY EventCases
<1>1. At(ev) \in Cursors /\ At(ev).last_seq_id = v /\ At(ev).last_ts = ev.timestamp
  BY <1>0, TimestampOf DEF At, Cursors, BookState, Versions
<1>2. cursor' \in [Keys -> Cursors] /\ book' \in [Keys -> Books]
  BY <1>0, <1>1 DEF TypeOK
<1>3. ASSUME NEW j \in Keys, cursor'[j].state = "Synced"
      PROVE  /\ cursor'[j].last_seq_id \in Versions
             /\ Faithful(j, cursor'[j].last_seq_id, book'[j])
  <2>1. CASE j = k
    BY <2>1, <1>0, <1>1 DEF TypeOK
  <2>2. CASE j # k
    BY <1>3, <2>2 DEF TypeOK, BookFaithful
  <2>3. QED
    BY <2>1, <2>2
<1>4. ASSUME NEW j \in Keys, cursor'[j].state = "Synced", ExchangeOf(j) # "binance"
      PROVE  cursor'[j].last_ts \in TimesOf(j, cursor'[j].last_seq_id)
  <2>1. CASE j = k
    <3>1. cursor'[j] = At(ev)
      BY <2>1, <1>0 DEF TypeOK
    <3>2. QED
      BY <3>1, <2>1, <1>1, <1>4, TimestampOf
  <2>2. CASE j # k
    <3>1. cursor'[j] = cursor[j]
      BY <2>2 DEF TypeOK
    <3>2. QED
      BY <3>1, <1>4 DEF CursorStamped
  <2>3. QED
    BY <2>1, <2>2
<1>5. BookFaithful'
  BY <1>2, <1>3 DEF BookFaithful, Faithful
<1>6. CursorStamped'
  BY <1>4 DEF CursorStamped, TimesOf
<1>7. QED
  BY <1>2, <1>5, <1>6
(* The broadcast keeps every receiver's backlog within the capacity.       *)
LEMMA BroadcastType ==
    ASSUME TypeOK, NEW k \in Keys, Broadcast(k)
    PROVE  /\ signals' \in [Exchanges -> Seq(Keys)]
           /\ \A x \in Exchanges : Len(signals'[x]) <= SignalCap
           /\ lost' \subseteq Keys \X Losses
<1>1. SignalCap \in Nat \ {0}
  BY CapAssumption
<1>2. ASSUME NEW x \in Exchanges
      PROVE  /\ signals'[x] \in Seq(Keys)
             /\ Len(signals'[x]) <= SignalCap
  <2>1. signals[x] \in Seq(Keys) /\ Len(signals[x]) <= SignalCap
    BY DEF TypeOK
  <2>2. signals'[x] = IF Len(signals[x]) < SignalCap THEN Append(signals[x], k)
                                                     ELSE Append(Tail(signals[x]), k)
    BY DEF Broadcast
  <2>3. CASE Len(signals[x]) < SignalCap
    BY <2>1, <2>2, <2>3, <1>1
  <2>4. CASE ~(Len(signals[x]) < SignalCap)
    <3>1. signals[x] # <<>>
      BY <2>1, <2>4, <1>1
    <3>2. Tail(signals[x]) \in Seq(Keys) /\ Len(Tail(signals[x])) = Len(signals[x]) - 1
      BY <2>1, <3>1
    <3>3. QED
      BY <2>1, <2>2, <2>4, <3>2, <1>1
  <2>5. QED
    BY <2>3, <2>4
<1>3. signals' \in [Exchanges -> Seq(Keys)]
  BY <1>2 DEF Broadcast
<1>4. ASSUME NEW x \in Exchanges, Len(signals[x]) >= SignalCap
      PROVE  Head(signals[x]) \in Keys
  BY <1>1, <1>4 DEF TypeOK
<1>5. lost' \subseteq Keys \X Losses
  <2>1. lost \subseteq Keys \X Losses
    BY DEF TypeOK
  <2>2. \A x \in Exchanges : Len(signals[x]) >= SignalCap
            => <<Head(signals[x]), "signal">> \in Keys \X Losses
    BY <1>4 DEF Losses
  <2>3. QED
    BY <2>1, <2>2 DEF Broadcast
<1>6. QED
  BY <1>2, <1>3, <1>5

(* handle_event, one step per way through it.                              *)
LEMMA HandleEventInv ==
    ASSUME IInv, cmdQ' \in Seq(Commands), Len(cmdQ') <= CmdCap,
           NEW ev \in ValidEvents, HandleEvent(ev)
    PROVE  IInv'
<1> USE DEF IInv
<1> DEFINE k == ev.key
<1>1. k \in Keys /\ ev.seq_id \in Versions
  BY EventCases
<1>2. CASE LoadSnapshot(ev)
  <2> DEFINE b == LocalDepth(k, ApplyLevels(EmptyBook, ev.levels))
  <2>1. b \in Books /\ Faithful(k, ev.seq_id, b)
    <3>1. ev.levels = SnapshotLevels(k, ev.seq_id)
      BY <1>2, EventCases DEF LoadSnapshot
    <3>2. QED
      BY <3>1, <1>1, SnapshotFaithful
  <2>2. /\ book' = [book EXCEPT ![k] = b]
        /\ cursor' = [cursor EXCEPT ![k] = At(ev)]
        /\ UNCHANGED <<outVars, lost>>
    BY <1>2 DEF LoadSnapshot
  <2> HIDE DEF b
  <2>3. /\ cursor' \in [Keys -> Cursors] /\ book' \in [Keys -> Books]
        /\ BookFaithful' /\ CursorStamped'
    BY <2>1, <2>2, BookStep
  <2>4. RowsFaithful'
    BY <2>2, RowsStay DEF outVars
  <2>5. QED
    BY <2>2, <2>3, <2>4 DEF TypeOK, outVars
<1>3. CASE IgnoreUnsynced(ev)
  <2>1. RowsFaithful'
    BY <1>3, RowsStay DEF IgnoreUnsynced, outVars
  <2>2. QED
    BY <1>3, <2>1 DEF IgnoreUnsynced, TypeOK, bookVars, outVars, BookFaithful, Faithful,
                      CursorStamped, TimesOf
<1>4. CASE MarkCorrupted(ev)
  <2>1. /\ cursor' = [cursor EXCEPT ![k].state = "AwaitingSnapshot"]
        /\ audit' = TrySend(audit, AuditCap, k)
        /\ Broadcast(k)
        /\ UNCHANGED <<book, ingestion>>
    BY <1>4 DEF MarkCorrupted
  <2>2. cursor' \in [Keys -> Cursors]
    BY <2>1, <1>1 DEF TypeOK, Cursors, BookState
  <2>3. BookFaithful'
    BY <2>1, <1>1 DEF TypeOK, BookFaithful, Faithful
  <2>4. audit' \in Seq(Keys) /\ Len(audit') <= AuditCap
    BY <2>1, <1>1, TrySendType, CapAssumption DEF TypeOK
  <2>5. /\ signals' \in [Exchanges -> Seq(Keys)]
        /\ \A x \in Exchanges : Len(signals'[x]) <= SignalCap
        /\ lost' \subseteq Keys \X Losses
    BY <2>1, <1>1, BroadcastType
  <2>6. CursorStamped'
    BY <2>1, <1>1 DEF TypeOK, CursorStamped, TimesOf
  <2>7. RowsFaithful'
    BY <2>1, RowsStay
  <2>8. QED
    BY <2>1, <2>2, <2>3, <2>4, <2>5, <2>6, <2>7 DEF TypeOK
<1>5. CASE ApplyDelta(ev)
  <2> DEFINE b == LocalDepth(k, ApplyLevels(book[k], ev.levels))
  <2>1. /\ ~ev.is_snapshot
        /\ cursor[k].state = "Synced"
        /\ ~Gap(ev)
        /\ book' = [book EXCEPT ![k] = b]
        /\ cursor' = [cursor EXCEPT ![k] = At(ev)]
        /\ Publish(Ticks(ev, b))
        /\ UNCHANGED <<signals, audit, lost>>
    BY <1>5 DEF ApplyDelta
  <2>2. book[k] \in Books /\ Faithful(k, ev.prev_seq_id, book[k])
    <3>1. ev.prev_seq_id = cursor[k].last_seq_id
      BY <2>1, NoGap
    <3>2. QED
      BY <3>1, <2>1, <1>1 DEF TypeOK, BookFaithful
  <2>3. b \in Books /\ Faithful(k, ev.seq_id, b)
    <3>1. PICK lo \in Versions : /\ lo <= ev.prev_seq_id + 1
                                 /\ ev.levels = DeltaLevels(k, lo, ev.seq_id)
      BY <2>1, EventCases
    <3>2. ev.prev_seq_id \in Versions /\ ev.prev_seq_id < ev.seq_id
      BY <2>1, EventCases
    <3>3. QED
      BY <3>1, <3>2, <2>2, <1>1, DeltaFaithful
  <2> HIDE DEF b
  <2>4. /\ cursor' \in [Keys -> Cursors] /\ book' \in [Keys -> Books]
        /\ BookFaithful' /\ CursorStamped'
    BY <2>1, <2>3, BookStep
  <2>5. ingestion' \in Seq(Rows) /\ Len(ingestion') <= IngestCap /\ RowsFaithful'
    BY <2>1, TicksFaithful, PublishType DEF TypeOK
  <2>6. QED
    BY <2>1, <2>4, <2>5 DEF TypeOK
<1>6. QED
  BY <1>2, <1>3, <1>4, <1>5 DEF HandleEvent

(* Every step of the worker and of its environment keeps the invariant.    *)
LEMMA InvNext == IInv /\ [Next]_vars => IInv'
<1> SUFFICES ASSUME IInv, [Next]_vars PROVE IInv'
  OBVIOUS
<1> USE DEF IInv
<1>1. ASSUME NEW ev \in ValidEvents, Offer(ev)
      PROVE  IInv'
  <2>1. Update(ev) \in Commands
    BY DEF Commands
  <2>2. cmdQ' \in Seq(Commands) /\ Len(cmdQ') <= CmdCap
    BY <1>1, <2>1, TrySendType, CapAssumption DEF Offer, TypeOK
  <2>3. lost' \subseteq Keys \X Losses
    BY <1>1, EventCases DEF Offer, LostIf, TypeOK, Losses
  <2>4. RowsFaithful'
    BY <1>1, RowsStay DEF Offer, outVars
  <2>5. QED
    BY <1>1, <2>2, <2>3, <2>4 DEF Offer, TypeOK, bookVars, outVars, BookFaithful, Faithful,
                                  CursorStamped, TimesOf
<1>2. CASE Ticker
  <2>1. TakeSnapShot \in Commands
    BY DEF Commands
  <2>2. cmdQ' \in Seq(Commands) /\ Len(cmdQ') <= CmdCap
    BY <1>2, <2>1, TrySendType, CapAssumption DEF Ticker, TypeOK
  <2>3. RowsFaithful'
    BY <1>2, RowsStay DEF Ticker, outVars
  <2>4. QED
    BY <1>2, <2>2, <2>3 DEF Ticker, TypeOK, bookVars, outVars, BookFaithful, Faithful,
                            CursorStamped, TimesOf
<1>3. CASE Process
  <2>1. cmdQ # <<>> /\ cmdQ' = Tail(cmdQ)
    BY <1>3 DEF Process
  <2>2. cmdQ' \in Seq(Commands) /\ Len(cmdQ') <= CmdCap
    BY <2>1, HeadCommand
  <2>3. CASE Head(cmdQ).type = "Update" /\ HandleEvent(Head(cmdQ).event)
    <3>1. Head(cmdQ).event \in ValidEvents
      BY <2>1, <2>3, HeadCommand
    <3>2. QED
      BY <2>2, <2>3, <3>1, HandleEventInv
  <2>4. CASE EmitSnapshots
    <3>1. /\ Publish(SnapshotRows)
          /\ UNCHANGED <<bookVars, signals, audit, lost>>
      BY <2>4 DEF EmitSnapshots
    <3>2. ingestion' \in Seq(Rows) /\ Len(ingestion') <= IngestCap /\ RowsFaithful'
      BY <3>1, SnapshotRowsFaithful, PublishType DEF TypeOK
    <3>3. QED
      BY <2>2, <3>1, <3>2 DEF TypeOK, bookVars, BookFaithful, Faithful, CursorStamped, TimesOf
  <2>5. QED
    BY <1>3, <2>3, <2>4 DEF Process
<1>4. CASE IngestionRecv
  <2>1. /\ ingestion # <<>>
        /\ ingestion' = Tail(ingestion)
        /\ UNCHANGED <<cmdQ, bookVars, signals, audit, lost>>
    BY <1>4 DEF IngestionRecv
  <2>2. ingestion \in Seq(Rows) /\ Len(ingestion) <= IngestCap /\ IngestCap \in Nat
    BY CapAssumption DEF TypeOK
  <2>3. /\ ingestion' \in Seq(Rows)
        /\ Len(ingestion') = Len(ingestion) - 1
        /\ \A i \in 1 .. Len(ingestion') : ingestion'[i] = ingestion[i + 1]
    BY <2>1, <2>2
  <2>4. RowsFaithful'
    <3>1. \A i \in 1 .. Len(ingestion) : RowFaithful(ingestion[i])
      BY DEF RowsFaithful
    <3>2. ASSUME NEW i \in 1 .. Len(ingestion')
          PROVE  RowFaithful(ingestion'[i])
      <4>1. i + 1 \in 1 .. Len(ingestion)
        BY <2>2, <2>3
      <4>2. QED
        BY <4>1, <3>1, <2>3
    <3>3. QED
      BY <3>2, RowsAfter
  <2>5. QED
    BY <2>1, <2>2, <2>3, <2>4 DEF TypeOK, bookVars, BookFaithful, Faithful, CursorStamped, TimesOf
<1>5. CASE AuditRecv
  <2>1. audit' \in Seq(Keys) /\ Len(audit') <= AuditCap
    BY <1>5, CapAssumption DEF AuditRecv, TypeOK
  <2>2. RowsFaithful'
    BY <1>5, RowsStay DEF AuditRecv
  <2>3. QED
    BY <1>5, <2>1, <2>2 DEF AuditRecv, TypeOK, bookVars, BookFaithful, Faithful,
                            CursorStamped, TimesOf
<1>6. ASSUME NEW x \in Exchanges, SignalRecv(x)
      PROVE  IInv'
  <2>1. /\ Tail(signals[x]) \in Seq(Keys)
        /\ Len(Tail(signals[x])) <= SignalCap
    BY <1>6, CapAssumption DEF SignalRecv, TypeOK
  <2>2. /\ signals' \in [Exchanges -> Seq(Keys)]
        /\ \A y \in Exchanges : Len(signals'[y]) <= SignalCap
    BY <1>6, <2>1 DEF SignalRecv, TypeOK
  <2>3. RowsFaithful'
    BY <1>6, RowsStay DEF SignalRecv
  <2>4. QED
    BY <1>6, <2>2, <2>3 DEF SignalRecv, TypeOK, bookVars, BookFaithful, Faithful,
                            CursorStamped, TimesOf
<1>7. CASE UNCHANGED vars
  <2>1. RowsFaithful'
    BY <1>7, RowsStay DEF vars
  <2>2. QED
    BY <1>7, <2>1 DEF vars, TypeOK, BookFaithful, Faithful, CursorStamped, TimesOf
<1>8. QED
  BY <1>1, <1>2, <1>3, <1>4, <1>5, <1>6, <1>7 DEF Next

(* The inductive invariant holds in every state.                           *)
THEOREM Invariant == Spec => []IInv
BY InvInit, InvNext, PTL DEF Spec

(* Type correctness: in particular no channel ever exceeds its capacity    *)
(* and no cursor ever takes a number the exchange did not assign.          *)
THEOREM TypeCorrect == Spec => []TypeOK
<1>1. IInv => TypeOK
  BY DEF IInv
<1>2. QED
  BY <1>1, Invariant, PTL

(* handle_event keeps every synced book faithful to the exchange's book at *)
(* last_seq_id, whatever reaches the worker, in whatever order.            *)
THEOREM BooksAreFaithful == Spec => []BookFaithful
<1>1. IInv => BookFaithful
  BY DEF IInv
<1>2. QED
  BY <1>1, Invariant, PTL

(* Every row emit_ticks and emit_snapshots send to the database is true:   *)
(* of Bybit, of the book as it stood at the row's stamp, in nanoseconds;   *)
(* of Binance, whose stamps tell no time, of the update it was made of.    *)
THEOREM RowsAreFaithful == Spec => []RowsFaithful
<1>1. IInv => RowsFaithful
  BY DEF IInv
<1>2. QED
  BY <1>1, Invariant, PTL
-----------------------------------------------------------------------------
(* What truncation costs.                                                  *)

(* A level that is among the best of c is among the best of any book that  *)
(* shows only levels of c, this one among them.                            *)
LEMMA TopOfSubBook ==
    ASSUME NEW b \in Books, NEW c \in Books, \A m \in Levels : b[m] \in {0, c[m]},
           NEW depth \in Nat, NEW l \in Levels, b[l] # 0, TopOf(c, depth)[l] # 0
    PROVE  TopOf(b, depth)[l] # 0
<1> DEFINE B == {m \in Levels : b[m] > 0 /\ Better(m, l)}
<1> DEFINE C == {m \in Levels : c[m] > 0 /\ Better(m, l)}
<1>1. IsFiniteSet(C)
  BY LevelsFinite, FS_Subset
<1>2. \A m \in Levels : b[m] \in Nat /\ c[m] \in Nat
  BY SizesAssumption DEF Books
<1>3. B \subseteq C
  BY <1>2
<1>4. Cardinality(C) < depth
  BY DEF TopOf
<1> HIDE DEF B, C
<1>5. Cardinality(B) <= Cardinality(C) /\ Cardinality(B) \in Nat /\ Cardinality(C) \in Nat
  BY <1>1, <1>3, FS_Subset, FS_CardinalityType
<1>6. Cardinality(B) < depth
  BY <1>4, <1>5
<1>7. QED
  BY <1>6 DEF TopOf, B

(* A Binance book cut to the local depth lacks a level that the book it    *)
(* was cut from still had only if the exchange has that many better ones.  *)
LEMMA CutLevel ==
    ASSUME NEW k \in Keys, NEW c \in Books, NEW n \in Books, \A m \in Levels : n[m] \in {0, c[m]},
           NEW l \in Levels, n[l] # 0, LocalDepth(k, n)[l] = 0
    PROVE  TopOf(c, BINANCE_LOCAL_BOOK_DEPTH)[l] = 0
BY DepthAssumption, TopOfSubBook DEF LocalDepth

LEMMA MissingStep ==
    ASSUME IInv, [Next]_vars, NEW k \in Keys, NEW l \in Missing(k)' \ Missing(k)
    PROVE  TopOf(Content[k][cursor'[k].last_seq_id], BINANCE_LOCAL_BOOK_DEPTH)[l] = 0
<1>0. /\ l \in Levels /\ cursor'[k].state = "Synced" /\ book'[k][l] = 0
      /\ Content[k][cursor'[k].last_seq_id][l] > 0
      /\ cursor \in [Keys -> Cursors] /\ book \in [Keys -> Books]
      /\ BookFaithful
  BY DEF Missing, IInv, TypeOK
<1>1. ~(cursor'[k] = cursor[k] /\ book'[k] = book[k])
  BY DEF Missing
<1>2. PICK ev \in ValidEvents : LoadSnapshot(ev) \/ MarkCorrupted(ev) \/ ApplyDelta(ev)
  <2>1. Process
    BY <1>1 DEF Next, Offer, Ticker, IngestionRecv, AuditRecv, SignalRecv, vars, bookVars
  <2>2. cmdQ # <<>> /\ cmdQ \in Seq(Commands)
    BY <2>1 DEF Process, IInv, TypeOK
  <2>3. Head(cmdQ) \in Commands
    BY <2>2
  <2>4. Head(cmdQ).type = "Update" /\ HandleEvent(Head(cmdQ).event)
    BY <1>1, <2>1 DEF Process, EmitSnapshots, bookVars
  <2>5. Head(cmdQ).event \in ValidEvents
    BY <2>3, <2>4 DEF Commands, Update, TakeSnapShot
  <2>6. ~IgnoreUnsynced(Head(cmdQ).event)
    BY <1>1 DEF IgnoreUnsynced, bookVars
  <2>7. QED
    BY <2>4, <2>5, <2>6 DEF HandleEvent
<1>3. ev.key = k
  BY <1>0, <1>1, <1>2 DEF LoadSnapshot, MarkCorrupted, ApplyDelta
<1>4. ~MarkCorrupted(ev)
  <2>1. SUFFICES ASSUME MarkCorrupted(ev) PROVE FALSE
    OBVIOUS
  <2>2. cursor[k] \in [state : BookState, last_seq_id : Nat, last_ts : Nat]
    BY <1>0 DEF Cursors
  <2>3. cursor'[k] = [cursor[k] EXCEPT !.state = "AwaitingSnapshot"]
    BY <1>0, <1>3, <2>1 DEF MarkCorrupted
  <2>4. QED
    BY <1>0, <2>2, <2>3
<1> DEFINE hi == ev.seq_id
<1> DEFINE c == Content[k][hi]
<1>5. hi \in Versions /\ c \in Books
  BY <1>3, EventCases, ContentType
<1>6. cursor'[k].last_seq_id = hi
  BY <1>0, <1>2, <1>3, <1>4 DEF LoadSnapshot, ApplyDelta, At
<1>7. CASE LoadSnapshot(ev)
  <2> DEFINE p == SnapshotBook(k, hi)
  <2>1. ev.levels = SnapshotLevels(k, hi)
    BY <1>3, <1>7, EventCases DEF LoadSnapshot
  <2>2. book'[k] = LocalDepth(k, p)
    BY <1>0, <1>3, <1>5, <1>7, <2>1, SnapshotApplied DEF LoadSnapshot
  <2>3. /\ p = LocalDepth(k, c)
        /\ p \in Books /\ \A m \in Levels : p[m] \in {0, c[m]}
    BY <1>5, LocalDepthType DEF SnapshotBook
  <2> HIDE DEF p
  <2>4. CASE p[l] # 0
    BY <1>0, <1>5, <1>6, <2>2, <2>3, <2>4, CutLevel
  <2>5. CASE p[l] = 0
    <3>1. c[l] # 0
      BY <1>0, <1>6
    <3>2. \A m \in Levels : c[m] \in {0, c[m]}
      OBVIOUS
    <3>3. QED
      BY <1>0, <1>5, <1>6, <2>3, <2>5, <3>1, <3>2, CutLevel
  <2>6. QED
    BY <2>4, <2>5
<1>8. CASE ApplyDelta(ev)
  <2>1. PICK lo \in Versions : /\ lo <= ev.prev_seq_id + 1
                               /\ ev.prev_seq_id \in Versions /\ ev.prev_seq_id < hi
                               /\ ev.levels = DeltaLevels(k, lo, hi)
    BY <1>3, <1>8, EventCases DEF ApplyDelta
  <2> DEFINE prev == cursor[k].last_seq_id
  <2> DEFINE old == book[k]
  <2> DEFINE n == ApplyLevels(old, DeltaLevels(k, lo, hi))
  <2>2. prev = ev.prev_seq_id /\ cursor[k].state = "Synced"
    BY <1>3, <1>8, NoGap DEF ApplyDelta
  <2>3. book'[k] = LocalDepth(k, n)
    BY <1>0, <1>3, <1>8, <2>1 DEF ApplyDelta
  <2>4. Faithful(k, prev, old) /\ old \in Books
    BY <1>0, <2>2 DEF BookFaithful
  <2>5. prev \in (lo - 1) .. hi /\ hi \in (lo - 1) .. hi
    BY <1>5, <2>1, <2>2 DEF Versions
  <2>6. \A m \in Levels : m \notin Touched(k, lo, hi) => Content[k][prev][m] = c[m]
    BY <2>5 DEF Touched
  <2>7. \A m \in Levels : n[m] = IF m \in Touched(k, lo, hi) THEN c[m] ELSE old[m]
    BY DEF ApplyLevels, DeltaLevels
  <2>8. n \in Books
    <3>1. n = [m \in Levels |-> n[m]]
      BY DEF ApplyLevels
    <3>2. QED
      BY <1>5, <2>4, <2>7, <3>1 DEF Books
  <2>9. \A m \in Levels : n[m] \in {0, c[m]}
    BY <2>4, <2>6, <2>7 DEF Faithful
  <2>10. n[l] # 0
    <3>1. CASE l \in Touched(k, lo, hi)
      BY <1>0, <1>6, <2>7, <3>1
    <3>2. CASE l \notin Touched(k, lo, hi)
      <4>1. old[l] # 0
        BY <1>0, <1>6, <2>2, <2>6, <3>2 DEF Missing
      <4>2. QED
        BY <1>0, <2>7, <3>2, <4>1
    <3>3. QED
      BY <3>1, <3>2
  <2> HIDE DEF n
  <2>11. LocalDepth(k, n)[l] = 0 /\ l \in Levels
    BY <1>0, <2>3
  <2> HIDE DEF c
  <2>12. TopOf(c, BINANCE_LOCAL_BOOK_DEPTH)[l] = 0
    BY <1>5, <2>8, <2>9, <2>10, <2>11, CutLevel
  <2>13. QED
    BY <1>6, <2>12 DEF c
<1>9. QED
  BY <1>2, <1>4, <1>7, <1>8

(* truncate_book_depth and the REST snapshot lose a level only at a moment *)
(* when the exchange has BINANCE_LOCAL_BOOK_DEPTH better ones on its side. *)
THEOREM OnlyDeepLevelsAreLost == Spec => MissingOnlyBeyondDepth
<1> DEFINE P == \A k \in Keys : \A l \in Missing(k)' \ Missing(k) :
                   TopOf(Content[k][cursor'[k].last_seq_id], BINANCE_LOCAL_BOOK_DEPTH)[l] = 0
<1>1. IInv /\ [Next]_vars => P
  BY MissingStep
<1>2. IInv /\ [Next]_vars => [P]_bookVars
  BY <1>1
<1>3. QED
  BY <1>2, Invariant, PTL DEF Spec, MissingOnlyBeyondDepth
-----------------------------------------------------------------------------
(* The connectors.  An instrument whose snapshot is to come is one that is *)
(* configured; only the Binance adapter bootstraps, and what it fetched is *)
(* there only until the bootstrap ends; a stream that is on has a          *)
(* position, and a connection that is down has no stream.                  *)
ConnInv ==
    /\ todo \in [Exchanges -> SUBSET (UNION {Instruments[x] : x \in Exchanges})]
    /\ \A x \in Exchanges :
          /\ todo[x] \subseteq Instruments[x]
          /\ phase[x] = "bootstrap" => x = "binance"
          /\ phase[x] # "bootstrap" => todo[x] = {} /\ fetched[x] = <<>>
          /\ \A n \in 1 .. Len(fetched[x]) : ExchangeOf(fetched[x][n].key) = x
    /\ \A k \in Keys :
          /\ stream[k] # "off" => pos[k] > 0
          /\ stream[k] = "snapshot" => ExchangeOf(k) # "binance"
          /\ phase[ExchangeOf(k)] = "down" => stream[k] = "off" /\ ~owed[k]

Conn == ConnTypeOK /\ ConnInv

LEMMA KeyFacts ==
    /\ \A x \in Exchanges : \A i \in Instruments[x] :
          KeyOf(x, i) \in Keys /\ ExchangeOf(KeyOf(x, i)) = x
    /\ \A k \in Keys : /\ ExchangeOf(k) \in Exchanges
                       /\ \E i \in Instruments[ExchangeOf(k)] : KeyOf(ExchangeOf(k), i) = k
    /\ \A x \in Exchanges : x # "binance" => x = "bybit"
BY ConnAssumption DEF Keys, KeyOf, ExchangeOf

LEMMA SnapshotValid ==
    ASSUME NEW k \in Keys, NEW v \in Versions
    PROVE  /\ SnapshotEvent(k, v) \in ValidSnapshots
           /\ SnapshotEvent(k, v) \in ValidEvents
           /\ SnapshotEvent(k, v).key = k
           /\ SnapshotEvent(k, v).is_snapshot
           /\ SnapshotEvent(k, v).seq_id = v
<1>1. SnapshotEvent(k, v) \in ValidSnapshots
  BY DEF ValidSnapshots
<1>2. SnapshotEvent(k, v) \in ValidEvents
  BY <1>1 DEF ValidEvents
<1>3. QED
  BY <1>1, <1>2 DEF SnapshotEvent

LEMMA DeltaValid ==
    ASSUME NEW k \in Keys, NEW lo \in Versions, NEW prev \in Versions, NEW hi \in Versions,
           1 < lo, lo <= prev + 1, prev < hi
    PROVE  /\ DeltaEvent(k, lo, prev, hi) \in ValidEvents
           /\ DeltaEvent(k, lo, prev, hi).key = k
           /\ ~DeltaEvent(k, lo, prev, hi).is_snapshot
           /\ DeltaEvent(k, lo, prev, hi).seq_id = hi
           /\ DeltaEvent(k, lo, prev, hi).prev_seq_id = prev
<1> DEFINE r == <<k, lo, prev, hi>>
<1>1. r \in {s \in Keys \X Versions \X Versions \X Versions :
                 1 < s[2] /\ s[2] <= s[3] + 1 /\ s[3] < s[4]}
  OBVIOUS
<1>2. DeltaEvent(r[1], r[2], r[3], r[4]) \in ValidDeltas
  BY <1>1 DEF ValidDeltas
<1>3. DeltaEvent(k, lo, prev, hi) \in ValidEvents
  BY <1>2 DEF ValidEvents
<1>4. QED
  BY <1>3 DEF DeltaEvent

(* resolve_diff_sequence.  What it passes on reaches back to prev_seq_id   *)
(* and ahead of it, and prev_seq_id is the number in the state unless the  *)
(* state was in sequence and the diff begins beyond the next number.       *)
LEMMA ResolveFacts ==
    ASSUME NEW st \in SyncStates, NEW lo \in Versions, NEW hi \in Versions, 1 < lo, lo <= hi,
           NEW r, r = ResolveDiff(st, lo, hi)
    PROVE  /\ r.state \in SyncStates
           /\ r.emit \in BOOLEAN
           /\ ~r.emit => /\ r.state = st
                         /\ \/ st.mode = "None" \/ hi <= st.id
                            \/ st.mode = "AwaitingBridge" /\ st.id + 1 < lo
           /\ r.emit => /\ st.mode # "None"
                        /\ r.state = [mode |-> "Synced", id |-> hi]
                        /\ r.seq_id = hi
                        /\ r.prev_seq_id \in Versions
                        /\ lo <= r.prev_seq_id + 1
                        /\ r.prev_seq_id < hi
                        /\ r.prev_seq_id = st.id \/ (st.mode = "Synced" /\ st.id + 1 < lo)
           /\ st.mode = "AwaitingBridge" /\ st.id + 1 < lo => ~r.emit
<1> USE DEF SyncStates, Dropped, Emitted, Synced, Versions
<1>0. lo \in Nat /\ hi \in Nat /\ st.id \in Nat /\ MaxVersion \in Nat
  BY VersionAssumption
<1>1. CASE st.mode = "None" \/ hi <= st.id
  <2>1. r = Dropped(st)
    BY <1>0, <1>1 DEF ResolveDiff
  <2>2. QED
    BY <1>0, <1>1, <2>1
<1>2. CASE st.mode = "AwaitingBridge" /\ hi > st.id
  <2>1. r = IF lo <= st.id + 1 THEN Emitted(hi, st.id) ELSE Dropped(st)
    BY <1>0, <1>2 DEF ResolveDiff
  <2>2. QED
    BY <1>0, <1>2, <2>1
<1>3. CASE st.mode = "Synced" /\ hi > st.id
  <2>1. r = IF lo <= st.id + 1 THEN Emitted(hi, st.id) ELSE Emitted(hi, lo - 1)
    BY <1>0, <1>3 DEF ResolveDiff
  <2>2. QED
    BY <1>0, <1>3, <2>1
<1>4. QED
  BY <1>0, <1>1, <1>2, <1>3

LEMMA ConnAtInit == PipelineInit => Conn
<1> SUFFICES ASSUME PipelineInit PROVE Conn
  OBVIOUS
<1>1. 1 \in Versions /\ 0 \in 0 .. MaxVersion /\ 0 \in 0 .. MaxConn
  BY VersionAssumption, ConnAssumption DEF Versions
<1>2. NoState \in SyncStates
  BY DEF NoState, SyncStates
<1>3. ConnTypeOK
  BY <1>1, <1>2 DEF PipelineInit, ConnInit, ConnTypeOK, Streams, Phases
<1>4. ConnInv
  BY KeyFacts DEF PipelineInit, ConnInit, ConnInv
<1>5. QED
  BY <1>3, <1>4 DEF Conn

LEMMA ConnKept == ASSUME TypeOK, Conn, ConnNext PROVE Conn'
<1> USE DEF Conn, ConnTypeOK, ConnInv
<1>0. MaxVersion \in Nat \ {0} /\ Versions = 1 .. MaxVersion /\ MaxConn \in Nat
  BY VersionAssumption, ConnAssumption DEF Versions
<1>1. ASSUME NEW k \in Keys, ExchangeUpdate(k) PROVE Conn'
  <2>1. /\ version' \in [Keys -> Versions]
        /\ \A j \in Keys : version[j] <= version'[j]
    BY <1>0, <1>1 DEF ExchangeUpdate
  <2>2. UNCHANGED <<stream, pos, owed, phase, todo, fetched, sync, conns, failed>>
    BY <1>1 DEF ExchangeUpdate
  <2>3. QED
    BY <1>0, <2>1, <2>2
<1>2. ASSUME NEW k \in Keys, ServeSubscription(k) PROVE Conn'
  BY <1>0, <1>2, KeyFacts DEF ServeSubscription, Streams, Bootstraps
<1>3. ASSUME NEW k \in Keys, ReceiveSnapshot(k) PROVE Conn'
  BY <1>0, <1>3, KeyFacts DEF ReceiveSnapshot, Streams
<1>4. ASSUME NEW k \in Keys, ReceiveBybitDelta(k) PROVE Conn'
  BY <1>0, <1>4, KeyFacts DEF ReceiveBybitDelta
<1>5. ASSUME NEW k \in Keys, ReceiveBinanceDiff(k) PROVE Conn'
  <2>1. PICK u \in pos[k] + 1 .. version[k] :
            /\ pos' = [pos EXCEPT ![k] = u]
            /\ sync' = [sync EXCEPT ![k] = ResolveDiff(sync[k], pos[k] + 1, u).state]
    BY <1>5 DEF ReceiveBinanceDiff
  <2>2. ResolveDiff(sync[k], pos[k] + 1, u).state \in SyncStates
    <3>1. pos[k] > 0
      BY <1>5 DEF ReceiveBinanceDiff
    <3>2. /\ sync[k] \in SyncStates /\ pos[k] + 1 \in Versions /\ u \in Versions
          /\ 1 < pos[k] + 1 /\ pos[k] + 1 <= u
      BY <1>0, <2>1, <3>1
    <3>3. QED
      BY <3>2, ResolveFacts
  <2>3. UNCHANGED <<version, stream, owed, phase, todo, fetched, conns, failed>>
    BY <1>5 DEF ReceiveBinanceDiff
  <2>4. u \in 1 .. MaxVersion
    BY <1>0, <2>1
  <2>5. QED
    BY <1>0, <2>1, <2>2, <2>3, <2>4
<1>6. ASSUME NEW x \in Exchanges, Connect(x) PROVE Conn'
  <2>1. Instruments[x] \subseteq Names(x)
    BY DEF Names
  <2>2. /\ phase[x] = "down"
        /\ conns[x] < MaxConn /\ conns' = [conns EXCEPT ![x] = @ + 1]
        /\ owed' = [k \in Keys |-> owed[k] \/ ExchangeOf(k) = x]
        /\ phase' = [phase EXCEPT ![x] = IF x = "binance" THEN "bootstrap" ELSE "running"]
        /\ todo' = [todo EXCEPT ![x] = IF x = "binance" THEN Instruments[x] ELSE {}]
        /\ fetched' = [fetched EXCEPT ![x] = <<>>]
        /\ UNCHANGED <<version, stream, pos, sync, failed>>
    BY <1>6 DEF Connect, BeginBootstrap, Bootstraps
  <2>3. fetched' \in [Exchanges -> Seq(ValidSnapshots)]
    BY <2>2
  <2>4. ConnTypeOK'
    BY <1>0, <2>1, <2>2, <2>3 DEF Phases, Names, KeysOf
  <2>5. ConnInv'
    BY <2>2, KeyFacts
  <2>6. QED
    BY <2>4, <2>5
<1>7. ASSUME NEW x \in Exchanges, NEW i \in Names(x), FetchSnapshot(x, i) PROVE Conn'
  <2> DEFINE k == KeyOf(x, i)
  <2>1. PICK v \in Versions : /\ sync' = [sync EXCEPT ![k] = SetSnapshotState(@, v)]
                              /\ fetched' = [fetched EXCEPT ![x] = Append(@, SnapshotEvent(k, v))]
    BY <1>7 DEF FetchSnapshot
  <2>2. /\ phase[x] = "bootstrap" /\ i \in todo[x]
        /\ todo' = [todo EXCEPT ![x] = @ \ {i}]
        /\ UNCHANGED <<wireVars, phase, conns, failed>>
    BY <1>7 DEF FetchSnapshot
  <2>3. k \in Keys /\ ExchangeOf(k) = x
    BY <2>2, KeyFacts
  <2> HIDE DEF k
  <2>4. AwaitingBridge(v) \in SyncStates
    BY <1>0 DEF AwaitingBridge, SyncStates
  <2>5. /\ SnapshotEvent(k, v) \in ValidSnapshots
        /\ SnapshotEvent(k, v).key = k
    BY <2>3, SnapshotValid
  <2>6. sync' \in [Keys -> SyncStates]
    BY <2>1, <2>4 DEF SetSnapshotState
  <2>7. /\ fetched' \in [Exchanges -> Seq(ValidSnapshots)]
        /\ \A y \in Exchanges : y # x => fetched'[y] = fetched[y]
        /\ \A n \in 1 .. Len(fetched'[x]) : ExchangeOf(fetched'[x][n].key) = x
    <3> DEFINE f == fetched[x]
    <3> DEFINE e == SnapshotEvent(k, v)
    <3>1. f \in Seq(ValidSnapshots) /\ e \in ValidSnapshots /\ fetched' = [fetched EXCEPT ![x] = Append(f, e)]
      BY <2>1, <2>5
    <3>2. \A n \in 1 .. Len(f) : ExchangeOf(f[n].key) = x
      OBVIOUS
    <3>3. ExchangeOf(e.key) = x
      BY <2>3, <2>5
    <3> HIDE DEF f, e
    <3>4. /\ Append(f, e) \in Seq(ValidSnapshots)
          /\ \A n \in 1 .. Len(Append(f, e)) : ExchangeOf(Append(f, e)[n].key) = x
      BY <3>1, <3>2, <3>3
    <3>5. QED
      BY <3>1, <3>4
  <2>8. ConnTypeOK'
    BY <2>2, <2>6, <2>7 DEF wireVars, Names, KeysOf
  <2>9. ConnInv'
    BY <2>2, <2>7 DEF wireVars
  <2>10. QED
    BY <2>8, <2>9
<1>8. ASSUME NEW x \in Exchanges, BootstrapFails(x) PROVE Conn'
  <2>1. /\ phase[x] = "bootstrap"
        /\ phase' = [phase EXCEPT ![x] = "running"]
        /\ todo' = [todo EXCEPT ![x] = {}]
        /\ fetched' = [fetched EXCEPT ![x] = <<>>]
        /\ failed' = failed \cup {KeyOf(x, i) : i \in todo[x]}
                            \cup {fetched[x][n].key : n \in 1 .. Len(fetched[x])}
        /\ UNCHANGED <<wireVars, sync, conns>>
    BY <1>8 DEF BootstrapFails
  <2>2. \A i \in todo[x] : KeyOf(x, i) \in Keys
    BY KeyFacts
  <2>3. \A n \in 1 .. Len(fetched[x]) : fetched[x][n].key \in Keys
    <3>1. \A n \in 1 .. Len(fetched[x]) : fetched[x][n] \in ValidEvents
      BY DEF ValidEvents
    <3>2. QED
      BY <3>1, EventCases
  <2>4. failed' \subseteq Keys
    BY <2>1, <2>2, <2>3
  <2>5. QED
    BY <2>1, <2>4, KeyFacts DEF wireVars, Phases
<1>9. ASSUME NEW x \in Exchanges, PushSnapshot(x) PROVE Conn'
  <2>1. /\ phase[x] = "bootstrap" /\ todo[x] = {} /\ fetched[x] # <<>>
        /\ fetched' = [fetched EXCEPT ![x] = Tail(@)]
        /\ phase' = [phase EXCEPT ![x] = IF Len(fetched[x]) = 1 THEN "running" ELSE @]
        /\ UNCHANGED <<wireVars, todo, sync, conns, failed>>
    BY <1>9 DEF PushSnapshot
  <2> DEFINE f == fetched[x]
  <2>2. f \in Seq(ValidSnapshots) /\ f # <<>> /\ \A n \in 1 .. Len(f) : ExchangeOf(f[n].key) = x
    BY <2>1
  <2> HIDE DEF f
  <2>3. /\ Tail(f) \in Seq(ValidSnapshots)
        /\ \A n \in 1 .. Len(Tail(f)) : ExchangeOf(Tail(f)[n].key) = x
        /\ Len(f) = 1 => Tail(f) = <<>>
    <3>1. /\ Tail(f) \in Seq(ValidSnapshots)
          /\ Len(f) \in Nat /\ Len(Tail(f)) = Len(f) - 1
          /\ \A n \in 1 .. Len(Tail(f)) : Tail(f)[n] = f[n + 1]
      BY <2>2, HeadTailProperties
    <3>2. \A n \in 1 .. Len(Tail(f)) : n + 1 \in 1 .. Len(f)
      BY <3>1
    <3>3. Len(f) = 1 => Tail(f) = <<>>
      <4>1. Len(f) = 1 => Len(Tail(f)) = 0
        BY <3>1
      <4>2. Tail(f) # <<>> => Len(Tail(f)) \in Nat \ {0}
        BY <3>1, EmptySeq
      <4>3. QED
        BY <4>1, <4>2
    <3>4. \A n \in 1 .. Len(Tail(f)) : ExchangeOf(Tail(f)[n].key) = x
      BY <2>2, <3>1, <3>2
    <3>5. QED
      BY <3>1, <3>3, <3>4
  <2>4. /\ fetched' \in [Exchanges -> Seq(ValidSnapshots)]
        /\ fetched'[x] = Tail(f)
        /\ \A y \in Exchanges : y # x => fetched'[y] = fetched[y]
    BY <2>1, <2>3 DEF f
  <2>5. ConnTypeOK'
    BY <2>1, <2>4 DEF wireVars, Phases, Names, KeysOf
  <2>6. ConnInv'
    BY <2>1, <2>3, <2>4, KeyFacts DEF wireVars, f
  <2>7. QED
    BY <2>5, <2>6
<1>10. ASSUME NEW x \in Exchanges, HandleSignal(x) PROVE Conn'
  <2> DEFINE k == Head(signals[x])
  <2>1. /\ phase[x] = "running"
        /\ UNCHANGED <<version, stream, pos, sync, conns, failed>>
        /\ \/ /\ ExchangeOf(k) = x /\ k[2] \in Instruments[x]
              /\ owed' = [owed EXCEPT ![k] = TRUE]
              /\ BeginBootstrap(x, {k[2]})
           \/ UNCHANGED <<owed, phase, todo, fetched>>
    BY <1>10 DEF HandleSignal, ActiveSubs
  <2>2. k \in Keys
    BY <1>10 DEF HandleSignal, TypeOK
  <2> HIDE DEF k
  <2>3. CASE UNCHANGED <<owed, phase, todo, fetched>>
    BY <2>1, <2>3
  <2>4. CASE /\ ExchangeOf(k) = x /\ k[2] \in Instruments[x]
             /\ owed' = [owed EXCEPT ![k] = TRUE]
             /\ BeginBootstrap(x, {k[2]})
    BY <2>1, <2>2, <2>4, KeyFacts DEF BeginBootstrap, Bootstraps, Phases, Names
  <2>5. QED
    BY <2>1, <2>3, <2>4
<1>11. ASSUME NEW x \in Exchanges, Disconnect(x) PROVE Conn'
  BY <1>11, KeyFacts DEF Disconnect, Phases, Streams
<1>12. QED
  BY <1>1, <1>2, <1>3, <1>4, <1>5, <1>6, <1>7, <1>8, <1>9, <1>10, <1>11 DEF ConnNext
-----------------------------------------------------------------------------
(* The process implements the indexer with its open environment: a step of *)
(* a connector offers one valid event, receives a restart signal, or is    *)
(* nothing to the indexer.                                                 *)

(* What the three actions that send an event send.                         *)
LEMMA PushSends ==
    ASSUME Conn, NEW x \in Exchanges, PushSnapshot(x)
    PROVE  /\ x = "binance"
           /\ Head(fetched[x]) \in ValidEvents
           /\ Head(fetched[x]).is_snapshot
           /\ Head(fetched[x]).key \in Keys
           /\ ExchangeOf(Head(fetched[x]).key) = x
           /\ SendEvent(Head(fetched[x]))
<1>1. phase[x] = "bootstrap" /\ fetched[x] # <<>> /\ fetched[x] \in Seq(ValidSnapshots)
  BY DEF PushSnapshot, Conn, ConnTypeOK
<1>2. x = "binance" /\ \A n \in 1 .. Len(fetched[x]) : ExchangeOf(fetched[x][n].key) = x
  BY <1>1 DEF Conn, ConnInv
<1>3. /\ Head(fetched[x]) \in ValidSnapshots
      /\ Head(fetched[x]) = fetched[x][1] /\ 1 \in 1 .. Len(fetched[x])
  BY <1>1
<1>4. \E k \in Keys, v \in Versions : Head(fetched[x]) = SnapshotEvent(k, v)
  BY <1>3 DEF ValidSnapshots
<1>5. QED
  BY <1>2, <1>3, <1>4, SnapshotValid DEF PushSnapshot

(* The position a connection has reached, as numbers.                      *)
LEMMA PositionFacts ==
    ASSUME Conn, NEW k \in Keys
    PROVE  /\ pos[k] \in Nat /\ pos[k] <= MaxVersion
           /\ version[k] \in Versions
           /\ sync[k] \in SyncStates /\ sync[k].id \in Nat
           /\ stream[k] # "off" => pos[k] \in Versions
           /\ stream[k] = "snapshot" => ExchangeOf(k) # "binance"
           /\ \A u \in pos[k] + 1 .. version[k] :
                 stream[k] # "off" => /\ u \in Versions /\ pos[k] + 1 \in Versions
                                      /\ 1 < pos[k] + 1 /\ pos[k] < u /\ pos[k] + 1 <= u
<1>1. /\ pos[k] \in 0 .. MaxVersion /\ version[k] \in 1 .. MaxVersion
      /\ MaxVersion \in Nat /\ Versions = 1 .. MaxVersion
  BY VersionAssumption DEF Conn, ConnTypeOK, Versions
<1>2. sync[k] \in SyncStates
  BY DEF Conn, ConnTypeOK
<1>3. sync[k].id \in Nat
  BY <1>2 DEF SyncStates
<1>4. (stream[k] # "off" => pos[k] > 0) /\ (stream[k] = "snapshot" => ExchangeOf(k) # "binance")
  BY DEF Conn, ConnInv
<1>5. QED
  BY <1>1, <1>2, <1>3, <1>4

LEMMA SnapshotSends ==
    ASSUME Conn, NEW k \in Keys, ReceiveSnapshot(k)
    PROVE  /\ pos[k] \in Versions
           /\ ExchangeOf(k) # "binance"
           /\ SnapshotEvent(k, pos[k]) \in ValidEvents
           /\ SendEvent(SnapshotEvent(k, pos[k]))
<1>1. pos[k] \in Versions /\ ExchangeOf(k) # "binance"
  BY PositionFacts DEF ReceiveSnapshot
<1>2. QED
  BY <1>1, SnapshotValid DEF ReceiveSnapshot

LEMMA BybitDeltaSends ==
    ASSUME Conn, NEW k \in Keys, ReceiveBybitDelta(k)
    PROVE  LET ev == DeltaEvent(k, pos[k] + 1, pos[k], pos[k] + 1) IN
           /\ ev \in ValidEvents /\ SendEvent(ev)
           /\ ev.key = k /\ ~ev.is_snapshot
           /\ ev.seq_id = pos[k] + 1 /\ ev.prev_seq_id = pos[k]
<1>0. stream[k] = "on" /\ pos[k] + 1 <= version[k] /\ version[k] \in 1 .. MaxVersion /\ pos[k] \in Nat
  BY PositionFacts DEF ReceiveBybitDelta, Versions
<1>1. /\ pos[k] + 1 \in Versions /\ pos[k] \in Versions /\ 1 < pos[k] + 1
      /\ (pos[k] + 1) - 1 = pos[k]
  BY <1>0, PositionFacts
<1>2. SendEvent(DeltaEvent(k, pos[k] + 1, pos[k], pos[k] + 1))
  BY <1>1 DEF ReceiveBybitDelta
<1>3. pos[k] + 1 <= pos[k] + 1 /\ pos[k] < pos[k] + 1
  BY <1>1 DEF Versions
<1>4. QED
  BY <1>1, <1>2, <1>3, DeltaValid

(* The diff of the updates pos[k] + 1 .. u, and what became of it.         *)
DiffSent(k, u, prev) ==
    LET ev == DeltaEvent(k, pos[k] + 1, prev, u) IN
    /\ ev \in ValidEvents /\ SendEvent(ev)
    /\ ev.key = k /\ ~ev.is_snapshot /\ ev.seq_id = u /\ ev.prev_seq_id = prev
    /\ sync[k].mode # "None"
    /\ sync' = [sync EXCEPT ![k] = [mode |-> "Synced", id |-> u]]
    /\ prev = sync[k].id \/ (sync[k].mode = "Synced" /\ sync[k].id < pos[k])

DiffDropped(k, u) ==
    /\ UNCHANGED <<cmdQ, lost, sync>>
    /\ \/ sync[k].mode = "None" \/ u <= sync[k].id
       \/ sync[k].mode = "AwaitingBridge" /\ sync[k].id < pos[k]

LEMMA DiffSends ==
    ASSUME Conn, NEW k \in Keys, ReceiveBinanceDiff(k)
    PROVE  \E u \in pos[k] + 1 .. version[k] :
              /\ pos' = [pos EXCEPT ![k] = u]
              /\ u \in Versions
              /\ \/ DiffDropped(k, u)
                 \/ /\ ~(sync[k].mode = "AwaitingBridge" /\ sync[k].id < pos[k])
                    /\ \E prev \in Versions : DiffSent(k, u, prev)
<1> DEFINE R(u) == ResolveDiff(sync[k], pos[k] + 1, u)
<1>1. PICK u \in pos[k] + 1 .. version[k] :
          /\ pos' = [pos EXCEPT ![k] = u]
          /\ sync' = [sync EXCEPT ![k] = R(u).state]
          /\ IF R(u).emit THEN SendEvent(DeltaEvent(k, pos[k] + 1, R(u).prev_seq_id, R(u).seq_id))
                          ELSE UNCHANGED <<cmdQ, lost>>
  BY DEF ReceiveBinanceDiff
<1>2. /\ sync[k] \in SyncStates /\ pos[k] + 1 \in Versions /\ u \in Versions
      /\ 1 < pos[k] + 1 /\ pos[k] + 1 <= u /\ pos[k] \in Nat /\ sync[k].id \in Nat
  BY <1>1, PositionFacts DEF ReceiveBinanceDiff
<1> DEFINE r == R(u)
<1>3. /\ r.state \in SyncStates
      /\ r.emit \in BOOLEAN
      /\ ~r.emit => /\ r.state = sync[k]
                    /\ \/ sync[k].mode = "None" \/ u <= sync[k].id
                       \/ sync[k].mode = "AwaitingBridge" /\ sync[k].id + 1 < pos[k] + 1
      /\ r.emit => /\ sync[k].mode # "None"
                   /\ r.state = [mode |-> "Synced", id |-> u]
                   /\ r.seq_id = u
                   /\ r.prev_seq_id \in Versions
                   /\ pos[k] + 1 <= r.prev_seq_id + 1
                   /\ r.prev_seq_id < u
                   /\ r.prev_seq_id = sync[k].id \/ (sync[k].mode = "Synced" /\ sync[k].id + 1 < pos[k] + 1)
      /\ sync[k].mode = "AwaitingBridge" /\ sync[k].id + 1 < pos[k] + 1 => ~r.emit
  BY <1>2, ResolveFacts
<1>4. sync[k].id + 1 < pos[k] + 1 <=> sync[k].id < pos[k]
  BY <1>2
<1> HIDE DEF R
<1>5. CASE r.emit
  <2>1. SendEvent(DeltaEvent(k, pos[k] + 1, r.prev_seq_id, u))
    BY <1>1, <1>3, <1>5
  <2> DEFINE prev == r.prev_seq_id
  <2>a. /\ prev \in Versions /\ pos[k] + 1 <= prev + 1 /\ prev < u
        /\ sync[k].mode # "None" /\ r.state = [mode |-> "Synced", id |-> u]
        /\ prev = sync[k].id \/ (sync[k].mode = "Synced" /\ sync[k].id < pos[k])
    BY <1>3, <1>4, <1>5
  <2> HIDE DEF prev
  <2>b. sync' = [sync EXCEPT ![k] = [mode |-> "Synced", id |-> u]]
    BY <1>1, <2>a
  <2>c. /\ DeltaEvent(k, pos[k] + 1, prev, u) \in ValidEvents
        /\ DeltaEvent(k, pos[k] + 1, prev, u).key = k
        /\ ~DeltaEvent(k, pos[k] + 1, prev, u).is_snapshot
        /\ DeltaEvent(k, pos[k] + 1, prev, u).seq_id = u
        /\ DeltaEvent(k, pos[k] + 1, prev, u).prev_seq_id = prev
    BY <1>2, <2>a, DeltaValid
  <2>2. DiffSent(k, u, prev)
    BY <2>1, <2>a, <2>b, <2>c DEF DiffSent, prev
  <2>3. QED
    BY <1>1, <1>2, <1>3, <1>4, <1>5, <2>2, <2>a
<1>6. CASE ~r.emit
  <2>1. sync' = sync
    BY <1>1, <1>3, <1>6 DEF Conn, ConnTypeOK
  <2>2. DiffDropped(k, u)
    BY <1>1, <1>3, <1>4, <1>6, <2>1 DEF DiffDropped
  <2>3. QED
    BY <1>1, <1>2, <2>2
<1>7. QED
  BY <1>3, <1>5, <1>6

LEMMA SendIsOffer ==
    ASSUME NEW ev \in ValidEvents, SendEvent(ev), signals' = signals, UNCHANGED indexerVars
    PROVE  Next
<1>1. Offer(ev)
  BY DEF SendEvent, Offer, LostIf, indexerVars, outVars
<1>2. QED
  BY <1>1 DEF Next

LEMMA ConnSimulates ==
    ASSUME TypeOK, Conn, ConnNext, UNCHANGED indexerVars
    PROVE  [Next]_vars
<1>0. UNCHANGED <<cmdQ, signals, lost>> => UNCHANGED vars
  BY DEF vars, indexerVars, bookVars
<1>1. ASSUME NEW k \in Keys, ExchangeUpdate(k) \/ ServeSubscription(k) PROVE [Next]_vars
  BY <1>0, <1>1 DEF ExchangeUpdate, ServeSubscription
<1>2. ASSUME NEW k \in Keys, ReceiveSnapshot(k) PROVE [Next]_vars
  BY <1>2, SnapshotSends, SendIsOffer DEF ReceiveSnapshot
<1>3. ASSUME NEW k \in Keys, ReceiveBybitDelta(k) PROVE [Next]_vars
  BY <1>3, BybitDeltaSends, SendIsOffer DEF ReceiveBybitDelta
<1>4. ASSUME NEW k \in Keys, ReceiveBinanceDiff(k) PROVE [Next]_vars
  <2>1. signals' = signals
    BY <1>4 DEF ReceiveBinanceDiff
  <2>2. PICK u : DiffDropped(k, u) \/ \E prev \in Versions : DiffSent(k, u, prev)
    BY <1>4, DiffSends
  <2>3. CASE DiffDropped(k, u)
    BY <1>0, <2>1, <2>3 DEF DiffDropped
  <2>4. CASE \E prev \in Versions : DiffSent(k, u, prev)
    BY <2>1, <2>4, SendIsOffer DEF DiffSent
  <2>5. QED
    BY <2>2, <2>3, <2>4
<1>5. ASSUME NEW x \in Exchanges, Connect(x) \/ (\E i \in Names(x) : FetchSnapshot(x, i))
                                 \/ BootstrapFails(x) \/ Disconnect(x)
      PROVE  [Next]_vars
  BY <1>0, <1>5 DEF Connect, FetchSnapshot, BootstrapFails, Disconnect
<1>6. ASSUME NEW x \in Exchanges, PushSnapshot(x) PROVE [Next]_vars
  BY <1>6, PushSends, SendIsOffer DEF PushSnapshot
<1>7. ASSUME NEW x \in Exchanges, HandleSignal(x) PROVE [Next]_vars
  <2>1. SignalRecv(x)
    BY <1>7 DEF HandleSignal, SignalRecv, indexerVars
  <2>2. QED
    BY <2>1 DEF Next
<1>8. QED
  BY <1>1, <1>2, <1>3, <1>4, <1>5, <1>6, <1>7 DEF ConnNext

LEMMA Simulates ==
    ASSUME TypeOK, Conn, [PipelineNext]_allVars
    PROVE  [Next]_vars
<1>1. CASE Connectors
  BY <1>1, ConnSimulates DEF Connectors
<1>2. CASE Worker \/ SnapshotTicker \/ Drain
  BY <1>2 DEF Worker, SnapshotTicker, Drain, Next
<1>3. CASE UNCHANGED allVars
  BY <1>3 DEF allVars
<1>4. QED
  BY <1>1, <1>2, <1>3 DEF PipelineNext

LEMMA PipelineKeepsConn ==
    ASSUME TypeOK, Conn, [PipelineNext]_allVars
    PROVE  Conn'
<1>1. CASE Connectors
  BY <1>1, ConnKept DEF Connectors
<1>2. CASE UNCHANGED connVars
  BY <1>2 DEF connVars, Conn, ConnTypeOK, ConnInv
<1>3. QED
  BY <1>1, <1>2 DEF PipelineNext, Worker, SnapshotTicker, Drain, allVars

LEMMA PipelineInvariant == PipelineSpec => [](IInv /\ Conn)
<1>1. PipelineInit => IInv /\ Conn
  BY InvInit, ConnAtInit DEF PipelineInit
<1>2. (IInv /\ Conn) /\ [PipelineNext]_allVars => (IInv /\ Conn)'
  BY Simulates, InvNext, PipelineKeepsConn DEF IInv
<1>3. QED
  BY <1>1, <1>2, PTL DEF PipelineSpec

(* Every variable of the process keeps its range and every channel its     *)
(* capacity, for any exchanges and instruments.                            *)
THEOREM PipelineTyped == PipelineSpec => []PipelineTypeOK
<1>1. IInv /\ Conn => PipelineTypeOK
  BY DEF IInv, Conn, PipelineTypeOK
<1>2. QED
  BY <1>1, PipelineInvariant, PTL

(* The connectors of run, handle_connection and both adapters send nothing *)
(* but what the indexer may rely on.                                       *)
THEOREM ConnectorsImplementIndexer == PipelineSpec => ImplementsIndexer
<1>1. PipelineInit => Init
  BY DEF PipelineInit
<1>2. (IInv /\ Conn) /\ [PipelineNext]_allVars => [Next]_vars
  BY Simulates DEF IInv
<1>3. QED
  BY <1>1, <1>2, PipelineInvariant, PTL DEF PipelineSpec, ImplementsIndexer, Spec

(* So the books of the process are faithful to their exchanges,            *)
THEOREM PipelineBooksAreFaithful == PipelineSpec => []BookFaithful
BY ConnectorsImplementIndexer, BooksAreFaithful, PTL DEF ImplementsIndexer

(* and so is every row it sends to the database.                           *)
THEOREM PipelineRowsAreFaithful == PipelineSpec => []RowsFaithful
BY ConnectorsImplementIndexer, RowsAreFaithful, PTL DEF ImplementsIndexer

(* No connector makes a book lack a level that the depths do not cut.      *)
THEOREM PipelineLosesOnlyDeepLevels == PipelineSpec => MissingOnlyBeyondDepth
BY ConnectorsImplementIndexer, OnlyDeepLevelsAreLost, PTL DEF ImplementsIndexer
-----------------------------------------------------------------------------
(* Why no sequence gap is spurious.  A book is clean while nothing of it   *)
(* was dropped and its bootstrap has not failed.  Of a clean book          *)
(* everything that waits in the command channel continues what stands      *)
(* before it or, at the head, the cursor; and what a connector will send   *)
(* next continues the last one.  The bookkeeping of the adapter (sync) and *)
(* the snapshots that wait in fetched are the links in between.            *)
Clean(k) == k \notin failed /\ \A what \in Losses : <<k, what>> \notin lost

Carries(cmd, k) == cmd.type = "Update" /\ cmd.event.key = k

(* Before place n of the queue q the book of k, whose cursor is c, will    *)
(* have been taken to update p.                                            *)
Reached(q, c, k, n, p) ==
    \/ \E m \in 1 .. n - 1 : /\ Carries(q[m], k) /\ q[m].event.seq_id = p
                             /\ \A j \in m + 1 .. n - 1 : ~Carries(q[j], k)
    \/ /\ \A j \in 1 .. n - 1 : ~Carries(q[j], k)
       /\ c.state = "Synced" /\ c.last_seq_id = p

QueueInOrder(q, c, k) ==
    \A n \in 1 .. Len(q) :
        Carries(q[n], k) /\ ~q[n].event.is_snapshot => Reached(q, c, k, n, q[n].event.prev_seq_id)

SentUpTo(k, p) == Reached(cmdQ, cursor[k], k, Len(cmdQ) + 1, p)

(* The last of the fetched snapshots f of k is that of update p.           *)
FetchedLast(f, k, p) ==
    \E n \in 1 .. Len(f) : /\ f[n].key = k /\ f[n].seq_id = p
                           /\ \A j \in n + 1 .. Len(f) : f[j].key # k

NoneFetched(f, k) == \A j \in 1 .. Len(f) : f[j].key # k

BybitInOrder(k) == stream[k] = "on" => SentUpTo(k, pos[k])

(* The adapter stands where its last snapshot or diff took it, and while   *)
(* it is in sequence the connection has read nothing beyond that.          *)
BinanceInOrder(k) ==
    /\ sync[k].mode # "None" =>
          \/ FetchedLast(fetched["binance"], k, sync[k].id)
          \/ NoneFetched(fetched["binance"], k) /\ SentUpTo(k, sync[k].id)
    /\ owed[k] => stream[k] = "off"
    /\ /\ phase["binance"] # "down"
       /\ sync[k].mode = "Synced"
       /\ \A i \in todo["binance"] : KeyOf("binance", i) # k
       => ~owed[k] /\ pos[k] <= sync[k].id

SourceInOrder(k) == IF ExchangeOf(k) = "binance" THEN BinanceInOrder(k) ELSE BybitInOrder(k)

CleanInOrder ==
    \A k \in Keys : Clean(k) => QueueInOrder(cmdQ, cursor[k], k) /\ SourceInOrder(k)

OnlyUnclean ==
    /\ \A n \in 1 .. Len(audit) : ~Clean(audit[n])
    /\ \A x \in Exchanges : \A n \in 1 .. Len(signals[x]) : ~Clean(signals[x][n])

GapInv == IInv /\ Conn /\ CleanInOrder /\ OnlyUnclean

(* Sending at the end of the queue.                                        *)
LEMMA ReachedAppend ==
    ASSUME NEW S, NEW q \in Seq(S), NEW m \in S, NEW c, NEW k, NEW p,
           NEW n \in 1 .. Len(q) + 1, Reached(q, c, k, n, p)
    PROVE  Reached(Append(q, m), c, k, n, p)
<1>1. \A j \in 1 .. n - 1 : Append(q, m)[j] = q[j]
  OBVIOUS
<1>2. QED
  BY <1>1 DEF Reached

LEMMA ReachedByAppend ==
    ASSUME NEW S, NEW q \in Seq(S), NEW m \in S, NEW c, NEW k, Carries(m, k)
    PROVE  Reached(Append(q, m), c, k, Len(q) + 2, m.event.seq_id)
<1>1. Append(q, m)[Len(q) + 1] = m /\ Len(q) + 1 \in 1 .. (Len(q) + 2) - 1
  OBVIOUS
<1>2. \A j \in (Len(q) + 1) + 1 .. (Len(q) + 2) - 1 : FALSE
  OBVIOUS
<1>3. QED
  BY <1>1, <1>2 DEF Reached

LEMMA ReachedPastOther ==
    ASSUME NEW S, NEW q \in Seq(S), NEW m \in S, NEW c, NEW k, NEW p, ~Carries(m, k),
           Reached(q, c, k, Len(q) + 1, p)
    PROVE  Reached(Append(q, m), c, k, Len(q) + 2, p)
<1> DEFINE r == Append(q, m)
<1>1. \A j \in 1 .. (Len(q) + 1) - 1 : r[j] = q[j]
  OBVIOUS
<1>2. r[Len(q) + 1] = m
  OBVIOUS
<1>3. \A j \in 1 .. (Len(q) + 2) - 1 : j \in 1 .. (Len(q) + 1) - 1 \/ j = Len(q) + 1
  OBVIOUS
<1> HIDE DEF r
<1>4. CASE \E i \in 1 .. (Len(q) + 1) - 1 :
              /\ Carries(q[i], k) /\ q[i].event.seq_id = p
              /\ \A j \in i + 1 .. (Len(q) + 1) - 1 : ~Carries(q[j], k)
  <2>1. PICK i \in 1 .. (Len(q) + 1) - 1 :
              /\ Carries(q[i], k) /\ q[i].event.seq_id = p
              /\ \A j \in i + 1 .. (Len(q) + 1) - 1 : ~Carries(q[j], k)
    BY <1>4
  <2>2. r[i] = q[i] /\ i \in 1 .. (Len(q) + 2) - 1
    BY <1>1
  <2>3. ASSUME NEW j \in i + 1 .. (Len(q) + 2) - 1 PROVE ~Carries(r[j], k)
    <3>1. CASE j = Len(q) + 1
      BY <3>1, <1>2
    <3>2. CASE j # Len(q) + 1
      BY <3>2, <2>1, <1>1
    <3>3. QED
      BY <3>1, <3>2
  <2>4. QED
    BY <2>1, <2>2, <2>3 DEF Reached, r
<1>5. CASE /\ \A j \in 1 .. (Len(q) + 1) - 1 : ~Carries(q[j], k)
           /\ c.state = "Synced" /\ c.last_seq_id = p
  <2>1. \A j \in 1 .. (Len(q) + 2) - 1 : ~Carries(r[j], k)
    BY <1>1, <1>2, <1>3, <1>5
  <2>2. QED
    BY <1>5, <2>1 DEF Reached, r
<1>6. QED
  BY <1>4, <1>5 DEF Reached

(* Taking the head of the queue, after which the cursor is d.              *)
LEMMA ReachedTail ==
    ASSUME NEW S, NEW q \in Seq(S), q # <<>>, NEW c, NEW d, NEW k, NEW p,
           NEW n \in 2 .. Len(q) + 1, Reached(q, c, k, n, p),
           IF Carries(q[1], k) THEN d.state = "Synced" /\ d.last_seq_id = q[1].event.seq_id
                               ELSE d = c
    PROVE  Reached(Tail(q), d, k, n - 1, p)
<1> DEFINE t == Tail(q)
<1>1. \A j \in 1 .. (n - 1) - 1 : t[j] = q[j + 1] /\ j + 1 \in 2 .. n - 1
  BY HeadTailProperties
<1> HIDE DEF t
<1>2. CASE \E i \in 1 .. n - 1 : /\ Carries(q[i], k) /\ q[i].event.seq_id = p
                                 /\ \A j \in i + 1 .. n - 1 : ~Carries(q[j], k)
  <2>1. PICK i \in 1 .. n - 1 : /\ Carries(q[i], k) /\ q[i].event.seq_id = p
                                /\ \A j \in i + 1 .. n - 1 : ~Carries(q[j], k)
    BY <1>2
  <2>2. CASE i = 1
    <3>1. d.state = "Synced" /\ d.last_seq_id = p
      BY <2>1, <2>2
    <3>2. \A j \in 1 .. (n - 1) - 1 : ~Carries(t[j], k)
      BY <1>1, <2>1, <2>2
    <3>3. QED
      BY <3>1, <3>2 DEF Reached, t
  <2>3. CASE i # 1
    <3>1. i - 1 \in 1 .. (n - 1) - 1 /\ (i - 1) + 1 = i
      BY <2>3
    <3>2. Carries(t[i - 1], k) /\ t[i - 1].event.seq_id = p
      BY <1>1, <2>1, <3>1
    <3>3. ASSUME NEW j \in (i - 1) + 1 .. (n - 1) - 1 PROVE ~Carries(t[j], k)
      <4>1. j \in 1 .. (n - 1) - 1 /\ j + 1 \in i + 1 .. n - 1
        BY <3>1
      <4>2. QED
        BY <1>1, <2>1, <4>1
    <3>4. QED
      BY <3>1, <3>2, <3>3 DEF Reached, t
  <2>4. QED
    BY <2>2, <2>3
<1>3. CASE /\ \A j \in 1 .. n - 1 : ~Carries(q[j], k)
           /\ c.state = "Synced" /\ c.last_seq_id = p
  <2>1. 1 \in 1 .. n - 1
    OBVIOUS
  <2>2. d = c
    BY <1>3, <2>1
  <2>3. \A j \in 1 .. (n - 1) - 1 : ~Carries(t[j], k)
    BY <1>1, <1>3
  <2>4. QED
    BY <1>3, <2>2, <2>3 DEF Reached, t
<1>4. QED
  BY <1>2, <1>3 DEF Reached

(* The queue stays in order when what is appended to it continues it, and  *)
(* when its head is taken.                                                 *)
LEMMA QueueAppend ==
    ASSUME NEW S, NEW q \in Seq(S), NEW m \in S, NEW c, NEW k, QueueInOrder(q, c, k),
           Carries(m, k) /\ ~m.event.is_snapshot
               => Reached(q, c, k, Len(q) + 1, m.event.prev_seq_id)
    PROVE  QueueInOrder(Append(q, m), c, k)
<1> DEFINE r == Append(q, m)
<1>1. Len(r) = Len(q) + 1 /\ r[Len(q) + 1] = m /\ \A n \in 1 .. Len(q) : r[n] = q[n]
  OBVIOUS
<1>2. SUFFICES ASSUME NEW n \in 1 .. Len(r), Carries(r[n], k), ~r[n].event.is_snapshot
               PROVE  Reached(r, c, k, n, r[n].event.prev_seq_id)
  BY DEF QueueInOrder
<1>3. n \in 1 .. Len(q) + 1
  BY <1>1
<1> HIDE DEF r
<1>4. CASE n = Len(q) + 1
  <2>1. Reached(q, c, k, n, m.event.prev_seq_id)
    BY <1>1, <1>2, <1>4
  <2>2. QED
    BY <1>1, <1>3, <1>4, <2>1, ReachedAppend DEF r
<1>5. CASE n \in 1 .. Len(q)
  <2>1. Reached(q, c, k, n, r[n].event.prev_seq_id)
    BY <1>1, <1>2, <1>5 DEF QueueInOrder
  <2>2. QED
    BY <1>3, <2>1, ReachedAppend DEF r
<1>6. QED
  BY <1>3, <1>4, <1>5

LEMMA QueueTail ==
    ASSUME NEW S, NEW q \in Seq(S), q # <<>>, NEW c, NEW d, NEW k, QueueInOrder(q, c, k),
           IF Carries(q[1], k) THEN d.state = "Synced" /\ d.last_seq_id = q[1].event.seq_id
                               ELSE d = c
    PROVE  QueueInOrder(Tail(q), d, k)
<1> DEFINE t == Tail(q)
<1>1. Len(t) = Len(q) - 1 /\ Len(q) \in Nat /\ \A n \in 1 .. Len(t) : t[n] = q[n + 1]
  BY HeadTailProperties
<1>2. SUFFICES ASSUME NEW n \in 1 .. Len(t), Carries(t[n], k), ~t[n].event.is_snapshot
               PROVE  Reached(t, d, k, n, t[n].event.prev_seq_id)
  BY DEF QueueInOrder
<1> HIDE DEF t
<1>3. n + 1 \in 2 .. Len(q) + 1 /\ n + 1 \in 1 .. Len(q) /\ (n + 1) - 1 = n
  BY <1>1
<1>4. Reached(q, c, k, n + 1, t[n].event.prev_seq_id)
  BY <1>1, <1>2, <1>3 DEF QueueInOrder
<1>5. Reached(Tail(q), d, k, (n + 1) - 1, t[n].event.prev_seq_id)
  BY <1>3, <1>4, ReachedTail
<1>6. QED
  BY <1>3, <1>5 DEF t

(* The snapshots that wait in fetched.                                     *)
LEMMA FetchedAppend ==
    ASSUME NEW S, NEW f \in Seq(S), NEW e \in S, NEW k
    PROVE  /\ e.key = k => FetchedLast(Append(f, e), k, e.seq_id)
           /\ e.key # k => /\ \A p : FetchedLast(f, k, p) => FetchedLast(Append(f, e), k, p)
                           /\ NoneFetched(f, k) => NoneFetched(Append(f, e), k)
<1> DEFINE g == Append(f, e)
<1>1. Len(g) = Len(f) + 1 /\ Len(f) \in Nat /\ g[Len(f) + 1] = e /\ \A j \in 1 .. Len(f) : g[j] = f[j]
  OBVIOUS
<1> HIDE DEF g
<1>2. ASSUME e.key = k PROVE FetchedLast(g, k, e.seq_id)
  <2>1. Len(g) \in 1 .. Len(g) /\ g[Len(g)] = e /\ \A j \in Len(g) + 1 .. Len(g) : FALSE
    BY <1>1
  <2>2. QED
    BY <1>2, <2>1 DEF FetchedLast
<1>3. \A j \in 1 .. Len(g) : j \in 1 .. Len(f) \/ j = Len(f) + 1
  BY <1>1
<1>4. ASSUME e.key # k, NoneFetched(f, k) PROVE NoneFetched(g, k)
  BY <1>1, <1>3, <1>4 DEF NoneFetched
<1>5. ASSUME e.key # k, NEW p, FetchedLast(f, k, p) PROVE FetchedLast(g, k, p)
  <2>1. PICK n \in 1 .. Len(f) : /\ f[n].key = k /\ f[n].seq_id = p
                                 /\ \A j \in n + 1 .. Len(f) : f[j].key # k
    BY <1>5 DEF FetchedLast
  <2>2. \A j \in n + 1 .. Len(g) : g[j].key # k
    <3>1. \A j \in n + 1 .. Len(g) : j \in n + 1 .. Len(f) \/ j = Len(f) + 1
      BY <1>1
    <3>2. QED
      BY <3>1, <2>1, <1>1, <1>5
  <2>3. n \in 1 .. Len(g) /\ g[n] = f[n]
    BY <1>1
  <2>4. QED
    BY <2>1, <2>2, <2>3 DEF FetchedLast
<1>6. QED
  BY <1>2, <1>4, <1>5 DEF g

LEMMA FetchedTail ==
    ASSUME NEW S, NEW f \in Seq(S), f # <<>>, NEW k, NEW p
    PROVE  /\ NoneFetched(f, k) => NoneFetched(Tail(f), k) /\ f[1].key # k
           /\ FetchedLast(f, k, p) =>
                 \/ FetchedLast(Tail(f), k, p)
                 \/ NoneFetched(Tail(f), k) /\ f[1].key = k /\ f[1].seq_id = p
<1> DEFINE t == Tail(f)
<1>1. /\ Len(t) = Len(f) - 1 /\ Len(f) \in Nat /\ 1 \in 1 .. Len(f)
      /\ \A n \in 1 .. Len(t) : t[n] = f[n + 1] /\ n + 1 \in 1 .. Len(f)
  <2>1. Len(f) \in Nat \ {0} /\ Len(t) = Len(f) - 1 /\ \A n \in 1 .. Len(t) : t[n] = f[n + 1]
    BY HeadTailProperties, EmptySeq
  <2>2. QED
    BY <2>1
<1> HIDE DEF t
<1>2. ASSUME NoneFetched(f, k) PROVE NoneFetched(t, k) /\ f[1].key # k
  BY <1>1, <1>2 DEF NoneFetched
<1>3. ASSUME FetchedLast(f, k, p)
      PROVE  \/ FetchedLast(t, k, p)
             \/ NoneFetched(t, k) /\ f[1].key = k /\ f[1].seq_id = p
  <2>1. PICK n \in 1 .. Len(f) : /\ f[n].key = k /\ f[n].seq_id = p
                                 /\ \A j \in n + 1 .. Len(f) : f[j].key # k
    BY <1>3 DEF FetchedLast
  <2>2. CASE n = 1
    BY <1>1, <2>1, <2>2 DEF NoneFetched
  <2>3. CASE n # 1
    <3>1. n - 1 \in 1 .. Len(t) /\ t[n - 1] = f[n]
      BY <1>1, <2>3
    <3>2. ASSUME NEW j \in (n - 1) + 1 .. Len(t) PROVE t[j].key # k
      <4>1. j \in 1 .. Len(t) /\ j + 1 \in n + 1 .. Len(f)
        BY <1>1, <3>1
      <4>2. QED
        BY <1>1, <2>1, <4>1
    <3>3. QED
      BY <2>1, <3>1, <3>2 DEF FetchedLast
  <2>4. QED
    BY <2>2, <2>3
<1>4. QED
  BY <1>2, <1>3 DEF t

(* What has been dropped stays dropped.                                    *)
LEMMA CleanBefore ==
    ASSUME [PipelineNext]_allVars, NEW k, Clean(k)'
    PROVE  Clean(k)
<1>1. ASSUME NEW j \in Keys, ReceiveBinanceDiff(j) PROVE lost \subseteq lost'
  BY <1>1 DEF ReceiveBinanceDiff, SendEvent
<1>2. Connectors => lost \subseteq lost' /\ failed \subseteq failed'
  BY <1>1 DEF Connectors, ConnNext, ExchangeUpdate, ServeSubscription, ReceiveSnapshot,
              ReceiveBybitDelta, ReceiveBinanceDiff, Connect, FetchSnapshot,
              BootstrapFails, PushSnapshot, HandleSignal, Disconnect, SendEvent
<1>3. Worker \/ SnapshotTicker \/ Drain => lost \subseteq lost' /\ failed \subseteq failed'
  BY DEF Worker, SnapshotTicker, Drain, connVars, Process, HandleEvent, LoadSnapshot,
         IgnoreUnsynced, MarkCorrupted, Broadcast, ApplyDelta, EmitSnapshots,
         Ticker, IngestionRecv, AuditRecv
<1>4. lost \subseteq lost' /\ failed \subseteq failed'
  BY <1>2, <1>3 DEF PipelineNext, allVars, vars, connVars
<1>5. QED
  BY <1>4 DEF Clean

(* One event sent.  For a book that is still clean afterwards the queue    *)
(* stays in order if the event continues what was sent before.             *)
LEMMA SentInOrder ==
    ASSUME TypeOK, NEW ev \in ValidEvents, SendEvent(ev), UNCHANGED cursor, NEW k \in Keys,
           Clean(k)', QueueInOrder(cmdQ, cursor[k], k),
           ev.key = k /\ ~ev.is_snapshot => SentUpTo(k, ev.prev_seq_id)
    PROVE  /\ QueueInOrder(cmdQ, cursor[k], k)'
           /\ ev.key = k => SentUpTo(k, ev.seq_id)'
           /\ ev.key # k => \A p : SentUpTo(k, p) => SentUpTo(k, p)'
<1> DEFINE c == cursor[k]
<1> DEFINE m == Update(ev)
<1>1. cmdQ \in Seq(Commands) /\ m \in Commands /\ Len(cmdQ) \in Nat
  BY DEF TypeOK, Commands
<1>2. m.type = "Update" /\ m.event = ev
  BY DEF Update
<1>3. c = cursor'[k]
  OBVIOUS
<1> HIDE DEF c, m
<1>4. Carries(m, k) <=> ev.key = k
  BY <1>2 DEF Carries
<1>5. CASE HasRoom(cmdQ, CmdCap)
  <2>1. cmdQ' = Append(cmdQ, m)
    BY <1>5 DEF SendEvent, TrySend, m
  <2>2. Len(cmdQ') + 1 = Len(cmdQ) + 2
    BY <1>1, <2>1
  <2>3. QueueInOrder(cmdQ', c, k)
    BY <1>1, <1>2, <1>4, <2>1, QueueAppend DEF SentUpTo, c
  <2>4. ev.key = k => Reached(cmdQ', c, k, Len(cmdQ') + 1, ev.seq_id)
    BY <1>1, <1>2, <1>4, <2>1, <2>2, ReachedByAppend
  <2>5. ASSUME ev.key # k, NEW p, SentUpTo(k, p)
        PROVE  Reached(cmdQ', c, k, Len(cmdQ') + 1, p)
    BY <1>1, <1>4, <2>1, <2>2, <2>5, ReachedPastOther DEF SentUpTo, c
  <2>6. QED
    BY <1>3, <2>3, <2>4, <2>5 DEF SentUpTo
<1>6. CASE ~HasRoom(cmdQ, CmdCap)
  <2>1. cmdQ' = cmdQ
    BY <1>6 DEF SendEvent, TrySend
  <2>2. ev.key # k
    BY <1>6 DEF SendEvent, Clean, Losses
  <2>3. QED
    BY <2>1, <2>2 DEF SentUpTo
<1>7. QED
  BY <1>5, <1>6

(* The connectors' steps, seen from a book that is clean after them.       *)
LEMMA ConnectorsKeepOrder ==
    ASSUME GapInv, Connectors, NEW k \in Keys, Clean(k)'
    PROVE  QueueInOrder(cmdQ, cursor[k], k)' /\ SourceInOrder(k)'
<1> USE DEF Conn, ConnTypeOK, ConnInv
<1>0. TypeOK /\ Conn /\ ConnNext /\ UNCHANGED indexerVars /\ UNCHANGED cursor
  BY DEF GapInv, IInv, Connectors, indexerVars, bookVars
<1>1. QueueInOrder(cmdQ, cursor[k], k) /\ SourceInOrder(k)
  <2>1. Clean(k)
    BY CleanBefore DEF PipelineNext
  <2>2. QED
    BY <2>1 DEF GapInv, CleanInOrder
<1>2. ASSUME UNCHANGED cmdQ
      PROVE  QueueInOrder(cmdQ, cursor[k], k)' /\ \A p : SentUpTo(k, p) => SentUpTo(k, p)'
  BY <1>0, <1>1, <1>2 DEF SentUpTo
<1>3. /\ ExchangeOf(k) \in Exchanges /\ (ExchangeOf(k) # "binance" => ExchangeOf(k) = "bybit")
      /\ \E i \in Instruments[ExchangeOf(k)] : KeyOf(ExchangeOf(k), i) = k
  BY KeyFacts
<1>4. /\ ExchangeOf(k) = "binance" => BinanceInOrder(k)
      /\ ExchangeOf(k) # "binance" => BybitInOrder(k)
  BY <1>1 DEF SourceInOrder
(* A step that sends an event of another book and leaves what is known of  *)
(* this one alone.                                                         *)
<1>5. ASSUME NEW ev \in ValidEvents, SendEvent(ev), ev.key # k,
             UNCHANGED <<phase, todo, fetched>>,
             stream'[k] = stream[k], pos'[k] = pos[k], owed'[k] = owed[k], sync'[k] = sync[k]
      PROVE  QueueInOrder(cmdQ, cursor[k], k)' /\ SourceInOrder(k)'
  <2>1. /\ QueueInOrder(cmdQ, cursor[k], k)'
        /\ \A p : SentUpTo(k, p) => SentUpTo(k, p)'
    BY <1>0, <1>1, <1>5, SentInOrder
  <2>2. QED
    BY <1>4, <1>5, <2>1 DEF SourceInOrder, BinanceInOrder, BybitInOrder
<1>6. ASSUME NEW j \in Keys, ExchangeUpdate(j)
      PROVE  QueueInOrder(cmdQ, cursor[k], k)' /\ SourceInOrder(k)'
  BY <1>2, <1>4, <1>6 DEF ExchangeUpdate, SourceInOrder, BinanceInOrder, BybitInOrder
<1>7. ASSUME NEW j \in Keys, ServeSubscription(j)
      PROVE  QueueInOrder(cmdQ, cursor[k], k)' /\ SourceInOrder(k)'
  <2>1. /\ owed[j] /\ owed' = [owed EXCEPT ![j] = FALSE]
        /\ stream' = [stream EXCEPT ![j] = IF ExchangeOf(j) = "binance" THEN "on" ELSE "snapshot"]
        /\ pos' = [pos EXCEPT ![j] = version[j]]
        /\ UNCHANGED <<cmdQ, phase, todo, fetched, sync>>
    BY <1>7 DEF ServeSubscription, Bootstraps
  <2>2. CASE j # k
    BY <1>2, <1>4, <2>1, <2>2 DEF SourceInOrder, BinanceInOrder, BybitInOrder
  <2>3. CASE j = k
    <3>1. ~owed'[k] /\ stream'[k] = IF ExchangeOf(k) = "binance" THEN "on" ELSE "snapshot"
      BY <1>0, <2>1, <2>3
    <3>2. ExchangeOf(k) # "binance" => BybitInOrder(k)'
      BY <3>1 DEF BybitInOrder
    <3>3. ExchangeOf(k) = "binance" => BinanceInOrder(k)'
      BY <1>2, <1>4, <2>1, <2>3, <3>1 DEF BinanceInOrder
    <3>4. QED
      BY <1>2, <2>1, <3>2, <3>3 DEF SourceInOrder
  <2>4. QED
    BY <2>2, <2>3
<1>8. ASSUME NEW j \in Keys, ReceiveSnapshot(j)
      PROVE  QueueInOrder(cmdQ, cursor[k], k)' /\ SourceInOrder(k)'
  <2> DEFINE ev == SnapshotEvent(j, pos[j])
  <2>1. /\ ExchangeOf(j) # "binance" /\ ev \in ValidEvents /\ SendEvent(ev)
        /\ ev.key = j /\ ev.is_snapshot /\ ev.seq_id = pos[j]
    BY <1>0, <1>8, SnapshotSends, SnapshotValid
  <2>2. /\ stream' = [stream EXCEPT ![j] = "on"]
        /\ UNCHANGED <<phase, todo, fetched, pos, owed, sync>>
    BY <1>8 DEF ReceiveSnapshot
  <2> HIDE DEF ev
  <2>3. CASE j # k
    BY <1>5, <2>1, <2>2, <2>3
  <2>4. CASE j = k
    <3>1. QueueInOrder(cmdQ, cursor[k], k)' /\ SentUpTo(k, pos[k])'
      BY <1>0, <1>1, <2>1, <2>2, <2>4, SentInOrder
    <3>2. QED
      BY <2>1, <2>4, <3>1 DEF SourceInOrder, BybitInOrder
  <2>5. QED
    BY <2>3, <2>4
<1>9. ASSUME NEW j \in Keys, ReceiveBybitDelta(j)
      PROVE  QueueInOrder(cmdQ, cursor[k], k)' /\ SourceInOrder(k)'
  <2>1. PICK ev \in ValidEvents :
              /\ SendEvent(ev) /\ ev.key = j /\ ~ev.is_snapshot
              /\ ev.seq_id = pos[j] + 1 /\ ev.prev_seq_id = pos[j]
    BY <1>0, <1>9, BybitDeltaSends
  <2>2. /\ ExchangeOf(j) = "bybit" /\ stream[j] = "on" /\ pos' = [pos EXCEPT ![j] = pos[j] + 1]
        /\ UNCHANGED <<phase, todo, fetched, stream, owed, sync>>
    BY <1>9 DEF ReceiveBybitDelta
  <2>3. CASE j # k
    BY <1>5, <2>1, <2>2, <2>3
  <2>4. CASE j = k
    <3>1. SentUpTo(k, pos[k])
      BY <1>4, <2>2, <2>4 DEF BybitInOrder
    <3>2. QueueInOrder(cmdQ, cursor[k], k)' /\ SentUpTo(k, ev.seq_id)'
      BY <1>0, <1>1, <2>1, <2>4, <3>1, SentInOrder
    <3>3. pos'[k] = ev.seq_id
      BY <1>0, <2>1, <2>2, <2>4
    <3>4. SentUpTo(k, pos[k])'
      BY <3>2, <3>3 DEF SentUpTo
    <3>5. QED
      BY <2>2, <2>4, <3>2, <3>4 DEF SourceInOrder, BybitInOrder
  <2>5. QED
    BY <2>3, <2>4
<1>10. ASSUME NEW j \in Keys, ReceiveBinanceDiff(j)
       PROVE  QueueInOrder(cmdQ, cursor[k], k)' /\ SourceInOrder(k)'
  <2>1. /\ ExchangeOf(j) = "binance" /\ phase["binance"] = "running" /\ stream[j] = "on"
        /\ UNCHANGED <<phase, todo, fetched, stream, owed>>
    BY <1>10 DEF ReceiveBinanceDiff
  <2>2. PICK u \in pos[j] + 1 .. version[j] :
              /\ pos' = [pos EXCEPT ![j] = u]
              /\ u \in Versions
              /\ DiffDropped(j, u) \/ \E prev \in Versions : DiffSent(j, u, prev)
    BY <1>0, <1>10, DiffSends
  <2>3. CASE j # k
    <3>1. CASE DiffDropped(j, u)
      BY <1>2, <1>4, <2>1, <2>2, <2>3, <3>1
         DEF DiffDropped, SourceInOrder, BinanceInOrder, BybitInOrder
    <3>2. CASE \E prev \in Versions : DiffSent(j, u, prev)
      <4>1. PICK prev \in Versions : DiffSent(j, u, prev)
        BY <3>2
      <4>2. QED
        BY <1>5, <2>1, <2>2, <2>3, <4>1 DEF DiffSent
    <3>3. QED
      BY <2>2, <3>1, <3>2
  <2>4. CASE j = k
    <3>1. /\ ~owed[k] /\ todo["binance"] = {} /\ fetched["binance"] = <<>>
          /\ sync[k].mode # "None" => SentUpTo(k, sync[k].id)
          /\ sync[k].mode = "Synced" => pos[k] <= sync[k].id
      <4>1. ~owed[k] /\ todo["binance"] = {} /\ fetched["binance"] = <<>>
        BY <1>0, <1>3, <1>4, <2>1, <2>4 DEF BinanceInOrder
      <4>2. ~FetchedLast(<<>>, k, sync[k].id)
        BY DEF FetchedLast
      <4>3. QED
        BY <1>4, <2>1, <2>4, <4>1, <4>2 DEF BinanceInOrder
    <3>2. NoneFetched(<<>>, k)
      BY DEF NoneFetched
    <3>3. /\ pos'[k] = u /\ u \in Nat /\ pos[k] \in Nat /\ sync[k].id \in Nat
          /\ pos[k] < u
      BY <1>0, <2>1, <2>2, <2>4, PositionFacts
    <3>4. CASE DiffDropped(k, u)
      <4>1. UNCHANGED <<cmdQ, sync>>
        BY <3>4 DEF DiffDropped
      <4>2. sync[k].mode = "Synced" => u <= sync[k].id
        BY <3>4 DEF DiffDropped
      <4>3. BinanceInOrder(k)'
        BY <1>2, <1>4, <2>1, <2>4, <3>1, <3>2, <3>3, <4>1, <4>2 DEF BinanceInOrder
      <4>4. QED
        BY <1>2, <2>1, <2>4, <4>1, <4>3 DEF SourceInOrder
    <3>5. CASE \E prev \in Versions : DiffSent(k, u, prev)
      <4>1. PICK prev \in Versions : DiffSent(k, u, prev)
        BY <3>5
      <4>1a. PICK ev \in ValidEvents :
                 /\ SendEvent(ev) /\ ev.key = k /\ ~ev.is_snapshot
                 /\ ev.seq_id = u /\ ev.prev_seq_id = prev
        BY <4>1 DEF DiffSent
      <4>2. /\ sync[k].mode # "None"
            /\ sync' = [sync EXCEPT ![k] = [mode |-> "Synced", id |-> u]]
            /\ prev = sync[k].id \/ (sync[k].mode = "Synced" /\ sync[k].id < pos[k])
        BY <4>1 DEF DiffSent
      <4>3. prev = sync[k].id
        BY <3>1, <3>3, <4>2
      <4>4. QueueInOrder(cmdQ, cursor[k], k)' /\ SentUpTo(k, ev.seq_id)'
        BY <1>0, <1>1, <3>1, <4>1a, <4>2, <4>3, SentInOrder
      <4>5. sync'[k].id = u /\ sync'[k].mode = "Synced" /\ pos'[k] <= sync'[k].id
        BY <1>0, <3>3, <4>2
      <4>6. SentUpTo(k, sync[k].id)'
        BY <4>1a, <4>4, <4>5 DEF SentUpTo
      <4>7. BinanceInOrder(k)'
        BY <2>1, <2>4, <3>1, <3>2, <4>5, <4>6 DEF BinanceInOrder
      <4>8. QED
        BY <2>1, <2>4, <4>4, <4>7 DEF SourceInOrder
    <3>6. QED
      BY <2>2, <2>4, <3>4, <3>5
  <2>5. QED
    BY <2>3, <2>4
<1>11. ASSUME NEW x \in Exchanges, Connect(x)
       PROVE  QueueInOrder(cmdQ, cursor[k], k)' /\ SourceInOrder(k)'
  <2>1. /\ phase[x] = "down"
        /\ owed' = [j \in Keys |-> owed[j] \/ ExchangeOf(j) = x]
        /\ phase' = [phase EXCEPT ![x] = IF x = "binance" THEN "bootstrap" ELSE "running"]
        /\ todo' = [todo EXCEPT ![x] = IF x = "binance" THEN Instruments[x] ELSE {}]
        /\ fetched' = [fetched EXCEPT ![x] = <<>>]
        /\ UNCHANGED <<stream, pos, sync, cmdQ>>
    BY <1>11 DEF Connect, BeginBootstrap, Bootstraps
  <2>2. CASE ExchangeOf(k) # x
    BY <1>0, <1>2, <1>3, <1>4, <2>1, <2>2 DEF SourceInOrder, BinanceInOrder, BybitInOrder
  <2>3. CASE ExchangeOf(k) = x
    <3>1. stream[k] = "off" /\ todo[x] = {} /\ fetched[x] = <<>>
      BY <1>0, <2>1, <2>3
    <3>2. ExchangeOf(k) # "binance" => BybitInOrder(k)'
      BY <2>1, <3>1 DEF BybitInOrder
    <3>3. ASSUME ExchangeOf(k) = "binance" PROVE BinanceInOrder(k)'
      <4>1. \E i \in todo'["binance"] : KeyOf("binance", i) = k
        BY <1>0, <1>3, <2>1, <2>3, <3>3
      <4>2. fetched'["binance"] = fetched["binance"]
        BY <1>0, <2>1, <2>3, <3>1, <3>3
      <4>3. QED
        BY <1>2, <1>4, <2>1, <3>1, <3>3, <4>1, <4>2 DEF BinanceInOrder
    <3>4. QED
      BY <1>2, <2>1, <3>2, <3>3 DEF SourceInOrder
  <2>4. QED
    BY <2>2, <2>3
<1>12. ASSUME NEW x \in Exchanges, NEW i \in Names(x), FetchSnapshot(x, i)
       PROVE  QueueInOrder(cmdQ, cursor[k], k)' /\ SourceInOrder(k)'
  <2> DEFINE j == KeyOf(x, i)
  <2>1. PICK v \in Versions : /\ sync' = [sync EXCEPT ![j] = SetSnapshotState(@, v)]
                              /\ fetched' = [fetched EXCEPT ![x] = Append(@, SnapshotEvent(j, v))]
    BY <1>12 DEF FetchSnapshot
  <2>2. /\ phase[x] = "bootstrap" /\ x = "binance"
        /\ todo' = [todo EXCEPT ![x] = @ \ {i}]
        /\ UNCHANGED <<stream, pos, owed, phase, cmdQ>>
    BY <1>0, <1>12 DEF FetchSnapshot, wireVars
  <2>3. j \in Keys
    BY <1>0, <1>12, KeyFacts DEF FetchSnapshot
  <2> DEFINE f == fetched["binance"]
  <2> DEFINE e == SnapshotEvent(j, v)
  <2>4. /\ f \in Seq(ValidSnapshots) /\ e \in ValidSnapshots /\ e.key = j /\ e.seq_id = v
        /\ fetched'["binance"] = Append(f, e)
    BY <1>0, <2>1, <2>2, <2>3, SnapshotValid
  <2> HIDE DEF f, e
  <2>5. CASE ExchangeOf(k) # "binance"
    BY <1>2, <1>4, <2>2, <2>5 DEF SourceInOrder, BybitInOrder
  <2>6. CASE ExchangeOf(k) = "binance" /\ j = k
    <3>1. sync'[k].mode = "AwaitingBridge" /\ sync'[k].id = v
      BY <1>0, <2>1, <2>6 DEF SetSnapshotState, AwaitingBridge
    <3>2. FetchedLast(Append(f, e), k, v)
      BY <2>4, <2>6, FetchedAppend
    <3>3. FetchedLast(fetched["binance"], k, sync[k].id)'
      BY <2>4, <3>1, <3>2
    <3>4. owed'[k] => stream'[k] = "off"
      BY <1>4, <2>2, <2>6 DEF BinanceInOrder
    <3>5. BinanceInOrder(k)'
      BY <3>1, <3>3, <3>4 DEF BinanceInOrder
    <3>6. QED
      BY <1>2, <2>2, <2>6, <3>5 DEF SourceInOrder
  <2>7. CASE ExchangeOf(k) = "binance" /\ j # k
    <3>1. sync'[k] = sync[k]
      BY <1>0, <2>1, <2>7
    <3>2. /\ \A p : FetchedLast(f, k, p) => FetchedLast(Append(f, e), k, p)
          /\ NoneFetched(f, k) => NoneFetched(Append(f, e), k)
      BY <2>4, <2>7, FetchedAppend
    <3>3. (\A n \in todo'["binance"] : KeyOf("binance", n) # k)
              => \A n \in todo["binance"] : KeyOf("binance", n) # k
      BY <1>0, <2>2, <2>7
    <3>4. BinanceInOrder(k)'
      BY <1>2, <1>4, <2>2, <2>4, <2>7, <3>1, <3>2, <3>3 DEF BinanceInOrder, f
    <3>5. QED
      BY <1>2, <2>2, <2>7, <3>4 DEF SourceInOrder
  <2>8. QED
    BY <2>5, <2>6, <2>7
<1>13. ASSUME NEW x \in Exchanges, BootstrapFails(x)
       PROVE  QueueInOrder(cmdQ, cursor[k], k)' /\ SourceInOrder(k)'
  <2>1. /\ phase[x] = "bootstrap" /\ x = "binance"
        /\ phase' = [phase EXCEPT ![x] = "running"]
        /\ todo' = [todo EXCEPT ![x] = {}]
        /\ fetched' = [fetched EXCEPT ![x] = <<>>]
        /\ failed' = failed \cup {KeyOf(x, i) : i \in todo[x]}
                            \cup {fetched[x][n].key : n \in 1 .. Len(fetched[x])}
        /\ UNCHANGED <<stream, pos, owed, cmdQ, sync>>
    BY <1>0, <1>13 DEF BootstrapFails, wireVars
  <2>2. /\ NoneFetched(fetched["binance"], k)
        /\ \A i \in todo["binance"] : KeyOf("binance", i) # k
    BY <2>1 DEF Clean, NoneFetched
  <2>3. ~\E p : FetchedLast(fetched["binance"], k, p)
    BY <2>2 DEF NoneFetched, FetchedLast
  <2>4. fetched'["binance"] = <<>> /\ NoneFetched(<<>>, k)
    BY <1>0, <2>1 DEF NoneFetched
  <2>5. ExchangeOf(k) = "binance" => BinanceInOrder(k)'
    BY <1>2, <1>4, <2>1, <2>2, <2>3, <2>4 DEF BinanceInOrder
  <2>6. ExchangeOf(k) # "binance" => BybitInOrder(k)'
    BY <1>2, <1>4, <2>1 DEF BybitInOrder
  <2>7. QED
    BY <1>2, <2>1, <2>5, <2>6 DEF SourceInOrder
<1>14. ASSUME NEW x \in Exchanges, PushSnapshot(x)
       PROVE  QueueInOrder(cmdQ, cursor[k], k)' /\ SourceInOrder(k)'
  <2> DEFINE f == fetched["binance"]
  <2>1. /\ x = "binance" /\ \E e \in ValidEvents :
              e = Head(f) /\ e.is_snapshot /\ SendEvent(e) /\ ExchangeOf(e.key) = "binance"
    BY <1>0, <1>14, PushSends
  <2>1a. PICK e \in ValidEvents :
              e = Head(f) /\ e.is_snapshot /\ SendEvent(e) /\ ExchangeOf(e.key) = "binance"
    BY <2>1
  <2>2. /\ phase[x] = "bootstrap" /\ fetched[x] # <<>>
        /\ fetched' = [fetched EXCEPT ![x] = Tail(@)]
        /\ phase' = [phase EXCEPT ![x] = IF Len(fetched[x]) = 1 THEN "running" ELSE @]
        /\ UNCHANGED <<stream, pos, owed, todo, sync>>
    BY <1>14 DEF PushSnapshot, wireVars
  <2>3. f \in Seq(ValidSnapshots) /\ f # <<>> /\ fetched'["binance"] = Tail(f)
    BY <1>0, <2>1, <2>2
  <2>4. e = f[1]
    BY <2>1a, <2>3
  <2> HIDE DEF f
  <2>5. /\ QueueInOrder(cmdQ, cursor[k], k)'
        /\ e.key = k => SentUpTo(k, e.seq_id)'
        /\ e.key # k => \A p : SentUpTo(k, p) => SentUpTo(k, p)'
    BY <1>0, <1>1, <2>1a, SentInOrder
  <2>6. ASSUME ExchangeOf(k) = "binance" PROVE BinanceInOrder(k)'
    <3>1. phase["binance"] = "bootstrap" /\ phase'["binance"] # "down"
      BY <1>0, <2>1, <2>2
    <3>2. ASSUME sync[k].mode # "None"
          PROVE  \/ FetchedLast(fetched["binance"], k, sync[k].id)'
                 \/ NoneFetched(fetched["binance"], k)' /\ SentUpTo(k, sync[k].id)'
      <4>1. CASE FetchedLast(f, k, sync[k].id)
        <5>1. \/ FetchedLast(Tail(f), k, sync[k].id)
              \/ NoneFetched(Tail(f), k) /\ e.key = k /\ e.seq_id = sync[k].id
          BY <2>3, <2>4, <4>1, FetchedTail
        <5>2. e.key = k /\ e.seq_id = sync[k].id => SentUpTo(k, sync[k].id)'
          BY <2>2, <2>5 DEF SentUpTo
        <5>3. QED
          BY <2>2, <2>3, <5>1, <5>2
      <4>2. CASE NoneFetched(f, k) /\ SentUpTo(k, sync[k].id)
        <5>1. NoneFetched(Tail(f), k) /\ e.key # k
          BY <2>3, <2>4, <4>2, FetchedTail
        <5>2. SentUpTo(k, sync[k].id)'
          BY <2>2, <2>5, <4>2, <5>1 DEF SentUpTo
        <5>3. QED
          BY <2>3, <5>1, <5>2
      <4>3. QED
        BY <1>4, <2>6, <3>2, <4>1, <4>2 DEF BinanceInOrder, f
    <3>3. QED
      BY <1>4, <2>2, <2>6, <3>1, <3>2 DEF BinanceInOrder
  <2>7. ASSUME ExchangeOf(k) # "binance" PROVE BybitInOrder(k)'
    <3>1. e.key # k
      BY <2>1a, <2>7
    <3>2. QED
      BY <1>4, <2>2, <2>5, <2>7, <3>1 DEF BybitInOrder, SentUpTo
  <2>8. QED
    BY <2>5, <2>6, <2>7 DEF SourceInOrder
<1>15. ASSUME NEW x \in Exchanges, HandleSignal(x)
       PROVE  QueueInOrder(cmdQ, cursor[k], k)' /\ SourceInOrder(k)'
  <2> DEFINE j == Head(signals[x])
  <2>1. /\ phase[x] = "running" /\ UNCHANGED <<stream, pos, sync, cmdQ>>
        /\ \/ owed' = [owed EXCEPT ![j] = TRUE] /\ BeginBootstrap(x, {j[2]})
           \/ UNCHANGED <<owed, phase, todo, fetched>>
    BY <1>15 DEF HandleSignal
  <2>2. j # k
    <3>1. signals[x] \in Seq(Keys) /\ signals[x] # <<>>
      BY <1>0, <1>15 DEF HandleSignal, TypeOK
    <3>2. j = signals[x][1] /\ 1 \in 1 .. Len(signals[x])
      BY <3>1
    <3>3. ~Clean(j)
      BY <3>2 DEF GapInv, OnlyUnclean
    <3>4. Clean(k)
      BY CleanBefore DEF PipelineNext
    <3>5. QED
      BY <3>3, <3>4
  <2> HIDE DEF j
  <2>3. CASE UNCHANGED <<owed, phase, todo, fetched>>
    BY <1>2, <1>4, <2>1, <2>3 DEF SourceInOrder, BinanceInOrder, BybitInOrder
  <2>4. CASE owed' = [owed EXCEPT ![j] = TRUE] /\ BeginBootstrap(x, {j[2]})
    <3>1. owed'[k] = owed[k] /\ todo[x] = {} /\ fetched[x] = <<>>
      BY <1>0, <2>1, <2>2, <2>4
    <3>2. /\ fetched'[ExchangeOf(k)] = fetched[ExchangeOf(k)]
          /\ todo[ExchangeOf(k)] \subseteq todo'[ExchangeOf(k)]
          /\ phase[ExchangeOf(k)] = "down" => phase'[ExchangeOf(k)] = "down"
      BY <1>0, <1>3, <2>1, <2>4, <3>1 DEF BeginBootstrap
    <3>3. ExchangeOf(k) = "binance" => BinanceInOrder(k)'
      BY <1>2, <1>4, <2>1, <3>1, <3>2 DEF BinanceInOrder
    <3>4. ExchangeOf(k) # "binance" => BybitInOrder(k)'
      BY <1>2, <1>4, <2>1 DEF BybitInOrder
    <3>5. QED
      BY <1>2, <2>1, <3>3, <3>4 DEF SourceInOrder
  <2>5. QED
    BY <2>1, <2>3, <2>4
<1>16. ASSUME NEW x \in Exchanges, Disconnect(x)
       PROVE  QueueInOrder(cmdQ, cursor[k], k)' /\ SourceInOrder(k)'
  <2>1. /\ phase' = [phase EXCEPT ![x] = "down"]
        /\ stream' = [j \in Keys |-> IF ExchangeOf(j) = x THEN "off" ELSE stream[j]]
        /\ owed' = [j \in Keys |-> owed[j] /\ ExchangeOf(j) # x]
        /\ UNCHANGED <<pos, todo, fetched, sync, cmdQ>>
    BY <1>16 DEF Disconnect
  <2>2. CASE ExchangeOf(k) = x
    BY <1>0, <1>2, <1>4, <2>1, <2>2 DEF SourceInOrder, BinanceInOrder, BybitInOrder
  <2>3. CASE ExchangeOf(k) # x
    BY <1>0, <1>2, <1>4, <2>1, <2>3 DEF SourceInOrder, BinanceInOrder, BybitInOrder
  <2>4. QED
    BY <2>2, <2>3
<1>17. QED
  BY <1>0, <1>6, <1>7, <1>8, <1>9, <1>10, <1>11, <1>12, <1>13, <1>14, <1>15, <1>16 DEF ConnNext

(* The head of the queue, for a clean book: it is never a gap, and the     *)
(* cursor moves to it.                                                     *)
LEMMA HeadInOrder ==
    ASSUME TypeOK, Process, NEW k \in Keys, QueueInOrder(cmdQ, cursor[k], k)
    PROVE  /\ IF Carries(cmdQ[1], k)
              THEN cursor'[k].state = "Synced" /\ cursor'[k].last_seq_id = cmdQ[1].event.seq_id
              ELSE cursor'[k] = cursor[k]
           /\ Carries(cmdQ[1], k) => ~MarkCorrupted(cmdQ[1].event)
<1> DEFINE ev == cmdQ[1].event
<1>1. /\ cmdQ # <<>> /\ cmdQ \in Seq(Commands) /\ Head(cmdQ) = cmdQ[1] /\ 1 \in 1 .. Len(cmdQ)
      /\ cursor \in [Keys -> Cursors]
  BY DEF TypeOK, Process
<1>2. CASE cmdQ[1].type = "Update" /\ HandleEvent(ev)
  <2>1. ev \in ValidEvents
    <3>1. cmdQ[1] \in Commands
      BY <1>1
    <3>2. QED
      BY <1>2, <3>1 DEF Commands, Update, TakeSnapShot
  <2>2. ev.key \in Keys
    BY <2>1, EventCases
  <2> HIDE DEF ev
  <2>3. CASE ev.key # k
    BY <1>1, <1>2, <2>2, <2>3 DEF Carries, HandleEvent, LoadSnapshot, IgnoreUnsynced,
                                  MarkCorrupted, ApplyDelta, bookVars, ev
  <2>4. CASE ev.key = k
    <3>1. ASSUME ~ev.is_snapshot
          PROVE  cursor[k].state = "Synced" /\ cursor[k].last_seq_id = ev.prev_seq_id
      <4>1. Carries(cmdQ[1], k)
        BY <1>2, <2>4 DEF Carries, ev
      <4>2. Reached(cmdQ, cursor[k], k, 1, ev.prev_seq_id)
        BY <1>1, <3>1, <4>1 DEF QueueInOrder, ev
      <4>3. QED
        BY <4>2 DEF Reached
    <3>2. ~MarkCorrupted(ev) /\ ~IgnoreUnsynced(ev)
      BY <2>4, <3>1 DEF MarkCorrupted, IgnoreUnsynced, Gap
    <3>3. LoadSnapshot(ev) \/ ApplyDelta(ev)
      BY <1>2, <3>2 DEF HandleEvent
    <3>4. cursor'[k].state = "Synced" /\ cursor'[k].last_seq_id = ev.seq_id
      BY <1>1, <2>4, <3>3 DEF LoadSnapshot, ApplyDelta, At
    <3>5. QED
      BY <1>2, <2>4, <3>2, <3>4 DEF Carries, ev
  <2>5. QED
    BY <2>3, <2>4
<1>3. CASE cmdQ[1].type = "TakeSnapShot" /\ EmitSnapshots
  BY <1>3 DEF EmitSnapshots, bookVars, Carries
<1>4. QED
  BY <1>1, <1>2, <1>3 DEF Process

LEMMA WorkerKeepsOrder ==
    ASSUME GapInv, Worker, NEW k \in Keys, Clean(k)'
    PROVE  QueueInOrder(cmdQ, cursor[k], k)' /\ SourceInOrder(k)'
<1>0. TypeOK /\ Process /\ UNCHANGED connVars
  BY DEF GapInv, IInv, Worker
<1>1. QueueInOrder(cmdQ, cursor[k], k) /\ SourceInOrder(k)
  <2>1. Clean(k)
    BY CleanBefore DEF PipelineNext
  <2>2. QED
    BY <2>1 DEF GapInv, CleanInOrder
<1>2. IF Carries(cmdQ[1], k)
      THEN cursor'[k].state = "Synced" /\ cursor'[k].last_seq_id = cmdQ[1].event.seq_id
      ELSE cursor'[k] = cursor[k]
  BY <1>0, <1>1, HeadInOrder
<1>3. cmdQ \in Seq(Commands) /\ cmdQ # <<>> /\ cmdQ' = Tail(cmdQ)
  BY <1>0 DEF TypeOK, Process
<1>4. QueueInOrder(cmdQ, cursor[k], k)'
  BY <1>1, <1>2, <1>3, QueueTail
<1>5. ASSUME NEW p, SentUpTo(k, p) PROVE SentUpTo(k, p)'
  <2>1. /\ Len(cmdQ) + 1 \in 2 .. Len(cmdQ) + 1
        /\ (Len(cmdQ) + 1) - 1 = Len(Tail(cmdQ)) + 1
    <3>1. Len(Tail(cmdQ)) = Len(cmdQ) - 1 /\ Len(cmdQ) \in Nat \ {0}
      BY <1>3, HeadTailProperties, EmptySeq
    <3>2. QED
      BY <3>1
  <2>2. Reached(Tail(cmdQ), cursor'[k], k, (Len(cmdQ) + 1) - 1, p)
    BY <1>2, <1>3, <1>5, <2>1, ReachedTail DEF SentUpTo
  <2>3. QED
    BY <1>3, <2>1, <2>2 DEF SentUpTo
<1>6. SourceInOrder(k)'
  BY <1>0, <1>1, <1>5 DEF connVars, SourceInOrder, BinanceInOrder, BybitInOrder
<1>7. QED
  BY <1>4, <1>6

(* The ticker's command belongs to no book.                                *)
LEMMA TickerKeepsOrder ==
    ASSUME GapInv, SnapshotTicker, NEW k \in Keys, Clean(k)'
    PROVE  QueueInOrder(cmdQ, cursor[k], k)' /\ SourceInOrder(k)'
<1>0. TypeOK /\ UNCHANGED connVars /\ UNCHANGED <<cursor, failed, lost>>
  BY DEF GapInv, IInv, SnapshotTicker, Ticker, connVars, bookVars
<1>1. QueueInOrder(cmdQ, cursor[k], k) /\ SourceInOrder(k)
  <2>1. Clean(k)
    BY CleanBefore DEF PipelineNext
  <2>2. QED
    BY <2>1 DEF GapInv, CleanInOrder
<1>2. /\ cmdQ \in Seq(Commands) /\ TakeSnapShot \in Commands
      /\ cmdQ' = cmdQ \/ cmdQ' = Append(cmdQ, TakeSnapShot)
  BY <1>0 DEF TypeOK, Commands, SnapshotTicker, Ticker, TrySend
<1>3. ~Carries(TakeSnapShot, k)
  BY DEF Carries, TakeSnapShot
<1>4. QueueInOrder(cmdQ, cursor[k], k)'
  BY <1>0, <1>1, <1>2, <1>3, QueueAppend
<1>5. ASSUME NEW p, SentUpTo(k, p) PROVE SentUpTo(k, p)'
  <2>1. CASE cmdQ' = cmdQ
    BY <1>0, <1>5, <2>1 DEF SentUpTo
  <2>2. CASE cmdQ' = Append(cmdQ, TakeSnapShot)
    <3>1. Len(cmdQ') + 1 = Len(cmdQ) + 2
      BY <1>2, <2>2
    <3>2. Reached(Append(cmdQ, TakeSnapShot), cursor[k], k, Len(cmdQ) + 2, p)
      BY <1>2, <1>3, <1>5, ReachedPastOther DEF SentUpTo
    <3>3. QED
      BY <1>0, <2>2, <3>1, <3>2 DEF SentUpTo
  <2>3. QED
    BY <1>2, <2>1, <2>2
<1>6. SourceInOrder(k)'
  BY <1>0, <1>1, <1>5 DEF connVars, SourceInOrder, BinanceInOrder, BybitInOrder
<1>7. QED
  BY <1>4, <1>6

LEMMA CleanInOrderKept == ASSUME GapInv, [PipelineNext]_allVars PROVE CleanInOrder'
<1> SUFFICES ASSUME NEW k \in Keys, Clean(k)'
             PROVE  QueueInOrder(cmdQ, cursor[k], k)' /\ SourceInOrder(k)'
  BY DEF CleanInOrder
<1>1. CASE Connectors
  BY <1>1, ConnectorsKeepOrder
<1>2. CASE Worker
  BY <1>2, WorkerKeepsOrder
<1>3. CASE SnapshotTicker
  BY <1>3, TickerKeepsOrder
<1>4. CASE Drain \/ UNCHANGED allVars
  <2>1. UNCHANGED <<cmdQ, cursor, stream, pos, owed, phase, todo, fetched, sync>>
    BY <1>4 DEF Drain, IngestionRecv, AuditRecv, allVars, vars, connVars, bookVars
  <2>2. QueueInOrder(cmdQ, cursor[k], k) /\ SourceInOrder(k)
    <3>1. Clean(k)
      BY CleanBefore
    <3>2. QED
      BY <3>1 DEF GapInv, CleanInOrder
  <2>3. QED
    BY <2>1, <2>2 DEF SourceInOrder, BinanceInOrder, BybitInOrder, SentUpTo
<1>5. QED
  BY <1>1, <1>2, <1>3, <1>4 DEF PipelineNext

(* What enters the audit channel and the broadcast names a book that was   *)
(* not clean before, and none ever becomes clean.                          *)
LEMMA OnlyUncleanKept == ASSUME GapInv, [PipelineNext]_allVars PROVE OnlyUnclean'
<1>0. TypeOK /\ OnlyUnclean
  BY DEF GapInv, IInv
<1>1. \A k : ~Clean(k) => ~Clean(k)'
  BY CleanBefore
<1>2. ASSUME UNCHANGED <<audit, signals>> PROVE OnlyUnclean'
  BY <1>0, <1>1, <1>2 DEF OnlyUnclean
<1>3. ASSUME UNCHANGED audit, NEW x \in Exchanges, signals[x] # <<>>,
             signals' = [signals EXCEPT ![x] = Tail(@)]
      PROVE  OnlyUnclean'
  <2>1. \A n \in 1 .. Len(Tail(signals[x])) :
            Tail(signals[x])[n] = signals[x][n + 1] /\ n + 1 \in 1 .. Len(signals[x])
    BY <1>0, <1>3, HeadTailProperties DEF TypeOK
  <2>2. \A n \in 1 .. Len(signals'[x]) : ~Clean(signals'[x][n])
    BY <1>0, <1>3, <2>1 DEF OnlyUnclean, TypeOK
  <2>3. \A y \in Exchanges : \A n \in 1 .. Len(signals'[y]) : ~Clean(signals'[y][n])
    BY <1>0, <1>3, <2>2 DEF OnlyUnclean, TypeOK
  <2>4. QED
    BY <1>0, <1>1, <1>3, <2>3 DEF OnlyUnclean
<1>4. CASE Connectors
  <2>1. audit' = audit /\ (signals' = signals \/ \E x \in Exchanges : HandleSignal(x))
    BY <1>4 DEF Connectors, indexerVars, ConnNext, ExchangeUpdate, ServeSubscription,
                ReceiveSnapshot, ReceiveBybitDelta, ReceiveBinanceDiff, Connect, FetchSnapshot,
                BootstrapFails, PushSnapshot, Disconnect
  <2>2. QED
    BY <1>2, <1>3, <2>1 DEF HandleSignal
<1>5. CASE SnapshotTicker \/ UNCHANGED allVars
  BY <1>2, <1>5 DEF SnapshotTicker, Ticker, outVars, allVars, vars
<1>6. CASE Drain
  <2>1. CASE IngestionRecv
    BY <1>2, <2>1 DEF IngestionRecv
  <2>2. CASE AuditRecv
    <3>1. /\ signals' = signals /\ audit' = Tail(audit)
          /\ \A n \in 1 .. Len(Tail(audit)) :
                Tail(audit)[n] = audit[n + 1] /\ n + 1 \in 1 .. Len(audit)
      BY <1>0, <2>2, HeadTailProperties DEF AuditRecv, TypeOK
    <3>2. \A n \in 1 .. Len(audit') : ~Clean(audit'[n])
      BY <1>0, <3>1 DEF OnlyUnclean
    <3>3. QED
      BY <1>0, <1>1, <3>1, <3>2 DEF OnlyUnclean
  <2>3. QED
    BY <1>6, <2>1, <2>2 DEF Drain
<1>7. CASE Worker
  <2>1. CASE UNCHANGED <<audit, signals>>
    BY <1>2, <2>1
  <2>2. CASE ~UNCHANGED <<audit, signals>>
    <3> DEFINE ev == cmdQ[1].event
    <3> DEFINE k == ev.key
    <3>1. cmdQ[1].type = "Update" /\ MarkCorrupted(ev)
      <4>1. cmdQ \in Seq(Commands) /\ cmdQ # <<>>
        BY <1>0, <1>7 DEF TypeOK, Worker, Process
      <4>2. Head(cmdQ) = cmdQ[1]
        BY <4>1
      <4>3. QED
        BY <1>7, <2>2, <4>2 DEF Worker, Process, HandleEvent, LoadSnapshot, IgnoreUnsynced,
                                ApplyDelta, EmitSnapshots, outVars
    <3>2. k \in Keys
      <4>1. cmdQ[1] \in Commands
        BY <1>0, <1>7 DEF TypeOK, Worker, Process
      <4>2. ev \in ValidEvents
        BY <3>1, <4>1 DEF Commands, Update, TakeSnapShot
      <4>3. QED
        BY <4>2, EventCases
    <3>3. ~Clean(k)
      <4>1. SUFFICES ASSUME Clean(k) PROVE FALSE
        OBVIOUS
      <4>2. QueueInOrder(cmdQ, cursor[k], k)
        BY <3>2, <4>1 DEF GapInv, CleanInOrder
      <4>3. Carries(cmdQ[1], k)
        BY <3>1 DEF Carries
      <4>4. QED
        BY <1>0, <1>7, <3>1, <3>2, <4>2, <4>3, HeadInOrder DEF Worker
    <3>4. PICK j \in Keys : /\ ~Clean(j)
                            /\ audit' = TrySend(audit, AuditCap, j)
                            /\ Broadcast(j)
      BY <3>1, <3>2, <3>3 DEF MarkCorrupted
    <3>5. \A n \in 1 .. Len(audit') : ~Clean(audit'[n])
      BY <1>0, <3>4 DEF TrySend, OnlyUnclean, TypeOK
    <3>6. ASSUME NEW x \in Exchanges, NEW n \in 1 .. Len(signals'[x])
          PROVE  ~Clean(signals'[x][n])
      <4> DEFINE s == signals[x]
      <4>1. s \in Seq(Keys) /\ \A i \in 1 .. Len(s) : ~Clean(s[i])
        BY <1>0 DEF TypeOK, OnlyUnclean
      <4>2. \/ signals'[x] = Append(s, j)
            \/ Len(s) >= SignalCap /\ signals'[x] = Append(Tail(s), j)
        <5>1. Len(s) \in Nat /\ SignalCap \in Nat
          BY <4>1, CapAssumption
        <5>2. QED
          BY <3>4, <5>1 DEF Broadcast
      <4> HIDE DEF s
      <4>3. CASE signals'[x] = Append(s, j)
        BY <3>4, <3>6, <4>1, <4>3
      <4>4. CASE Len(s) >= SignalCap /\ signals'[x] = Append(Tail(s), j)
        <5>1. s # <<>>
          BY <4>4, CapAssumption
        <5>2. /\ Tail(s) \in Seq(Keys)
              /\ \A i \in 1 .. Len(Tail(s)) : Tail(s)[i] = s[i + 1] /\ i + 1 \in 1 .. Len(s)
          BY <4>1, <5>1, HeadTailProperties
        <5>3. \A i \in 1 .. Len(Tail(s)) : ~Clean(Tail(s)[i])
          BY <4>1, <5>2
        <5> DEFINE t == Tail(s)
        <5> HIDE DEF t
        <5>4. n \in 1 .. Len(t) + 1 /\ \A i \in 1 .. Len(t) : ~Clean(Append(t, j)[i])
          BY <3>6, <4>4, <5>2, <5>3 DEF t
        <5>5. Append(t, j)[Len(t) + 1] = j
          BY <5>2 DEF t
        <5>6. QED
          BY <3>4, <4>4, <5>2, <5>4, <5>5 DEF t
      <4>5. QED
        BY <4>2, <4>3, <4>4
    <3>7. QED
      BY <1>1, <3>5, <3>6 DEF OnlyUnclean
  <2>3. QED
    BY <2>1, <2>2
<1>8. QED
  BY <1>4, <1>5, <1>6, <1>7 DEF PipelineNext

LEMMA GapInvariant == PipelineSpec => []GapInv
<1>1. PipelineInit => GapInv
  <2> SUFFICES ASSUME PipelineInit PROVE GapInv
    OBVIOUS
  <2>1. IInv /\ Conn
    BY InvInit, ConnAtInit DEF PipelineInit
  <2>2. cmdQ = <<>> /\ audit = <<>> /\ \A x \in Exchanges : signals[x] = <<>>
    BY DEF PipelineInit, Init
  <2>3. OnlyUnclean
    BY <2>2 DEF OnlyUnclean
  <2>4. \A k \in Keys : QueueInOrder(cmdQ, cursor[k], k)
    BY <2>2 DEF QueueInOrder
  <2>5. ASSUME NEW k \in Keys PROVE SourceInOrder(k)
    BY DEF PipelineInit, ConnInit, NoState, SourceInOrder, BinanceInOrder, BybitInOrder
  <2>6. QED
    BY <2>1, <2>3, <2>4, <2>5 DEF GapInv, CleanInOrder
<1>2. GapInv /\ [PipelineNext]_allVars => GapInv'
  <2> SUFFICES ASSUME GapInv, [PipelineNext]_allVars PROVE GapInv'
    OBVIOUS
  <2>1. IInv' /\ Conn'
    BY Simulates, InvNext, PipelineKeepsConn DEF GapInv, IInv
  <2>2. QED
    BY <2>1, CleanInOrderKept, OnlyUncleanKept DEF GapInv
<1>3. QED
  BY <1>1, <1>2, PTL DEF PipelineSpec

(* Neither a reconnection, nor the bridge from a REST snapshot to the      *)
(* stream, nor a resubscription, nor what happens to another book makes a  *)
(* gap: who finds a book in the audit channel knows that an event or a     *)
(* signal of that book was dropped, or that its bootstrap failed.          *)
THEOREM GapsAreNotSpurious == PipelineSpec => []NoSpuriousGap
<1>1. GapInv => NoSpuriousGap
  BY DEF GapInv, OnlyUnclean, NoSpuriousGap, Clean
<1>2. QED
  BY <1>1, GapInvariant, PTL
-----------------------------------------------------------------------------
(* Two flaws of the bootstrap, as action properties.  Both rest on the     *)
(* names main.rs configures: they are lower-case, so none of them is a     *)
(* symbol that an event or a signal of Binance carries.                    *)
LowerCaseNames == \A k \in KeysOf("binance") : k[2] \notin Instruments["binance"]

(* What a step of the connectors leaves of a Binance book whose connection *)
(* is past its bootstrap: no restart signal is answered, so the connector  *)
(* neither fetches a snapshot nor subscribes again, and the only event of  *)
(* the book it sends is a diff.                                            *)
LEMMA RunningBinance ==
    ASSUME LowerCaseNames, TypeOK, Conn, ConnNext,
           NEW k \in KeysOf("binance"), phase["binance"] = "running"
    PROVE  \/ phase'["binance"] = "down" /\ UNCHANGED cmdQ
           \/ ReceiveBinanceDiff(k) /\ phase'["binance"] = "running"
           \/ /\ phase'["binance"] = "running"
              /\ sync'[k] = sync[k]
              /\ ~owed[k] => stream'[k] = stream[k] /\ pos'[k] = pos[k] /\ ~owed'[k]
              /\ \/ UNCHANGED cmdQ
                 \/ \E ev \in ValidEvents : SendEvent(ev) /\ ev.key # k
<1> USE DEF Conn, ConnTypeOK, ConnInv
<1>0. k \in Keys /\ ExchangeOf(k) = "binance" /\ "binance" \in Exchanges
  BY KeyFacts DEF KeysOf
<1>1. ASSUME NEW j \in Keys, ExchangeUpdate(j) \/ ServeSubscription(j)
      PROVE  /\ phase'["binance"] = "running" /\ sync'[k] = sync[k] /\ UNCHANGED cmdQ
             /\ ~owed[k] => stream'[k] = stream[k] /\ pos'[k] = pos[k] /\ ~owed'[k]
  BY <1>0, <1>1 DEF ExchangeUpdate, ServeSubscription
<1>2. ASSUME NEW j \in Keys, ReceiveSnapshot(j) \/ ReceiveBybitDelta(j)
      PROVE  /\ phase'["binance"] = "running" /\ sync'[k] = sync[k]
             /\ stream'[k] = stream[k] /\ pos'[k] = pos[k] /\ owed'[k] = owed[k]
             /\ \E ev \in ValidEvents : SendEvent(ev) /\ ev.key # k
  <2>1. CASE ReceiveSnapshot(j)
    <3>1. j # k
      BY <1>0, <2>1, SnapshotSends
    <3> DEFINE e == SnapshotEvent(j, pos[j])
    <3>1a. e \in ValidEvents /\ SendEvent(e)
      BY <2>1, SnapshotSends
    <3>1b. e.key = j
      BY <2>1, SnapshotSends, SnapshotValid
    <3> HIDE DEF e
    <3>2. \E ev \in ValidEvents : SendEvent(ev) /\ ev.key # k
      BY <3>1, <3>1a, <3>1b
    <3>3. QED
      BY <2>1, <3>1, <3>2 DEF ReceiveSnapshot
  <2>2. CASE ReceiveBybitDelta(j)
    <3>1. j # k
      BY <1>0, <2>2 DEF ReceiveBybitDelta
    <3> DEFINE e == DeltaEvent(j, pos[j] + 1, pos[j], pos[j] + 1)
    <3>1a. e \in ValidEvents /\ SendEvent(e) /\ e.key = j
      BY <2>2, BybitDeltaSends
    <3> HIDE DEF e
    <3>2. \E ev \in ValidEvents : SendEvent(ev) /\ ev.key # k
      BY <3>1, <3>1a
    <3>3. QED
      BY <2>2, <3>1, <3>2 DEF ReceiveBybitDelta
  <2>3. QED
    BY <1>2, <2>1, <2>2
<1>3. ASSUME NEW j \in Keys, j # k, ReceiveBinanceDiff(j)
      PROVE  /\ phase'["binance"] = "running" /\ sync'[k] = sync[k]
             /\ stream'[k] = stream[k] /\ pos'[k] = pos[k] /\ owed'[k] = owed[k]
             /\ \/ UNCHANGED cmdQ
                \/ \E ev \in ValidEvents : SendEvent(ev) /\ ev.key # k
  <2>1. PICK u : /\ pos' = [pos EXCEPT ![j] = u]
                 /\ DiffDropped(j, u) \/ \E prev \in Versions : DiffSent(j, u, prev)
    BY <1>3, DiffSends
  <2>2. CASE DiffDropped(j, u)
    BY <1>3, <2>1, <2>2 DEF DiffDropped, ReceiveBinanceDiff
  <2>3. CASE \E prev \in Versions : DiffSent(j, u, prev)
    BY <1>3, <2>1, <2>3 DEF DiffSent, ReceiveBinanceDiff
  <2>4. QED
    BY <2>1, <2>2, <2>3
<1>4. ASSUME ReceiveBinanceDiff(k) PROVE phase'["binance"] = "running"
  BY <1>4 DEF ReceiveBinanceDiff
<1>5. ASSUME NEW x \in Exchanges, Connect(x) \/ HandleSignal(x)
      PROVE  /\ phase'["binance"] = "running" /\ sync'[k] = sync[k] /\ UNCHANGED cmdQ
             /\ ~owed[k] => stream'[k] = stream[k] /\ pos'[k] = pos[k] /\ ~owed'[k]
  <2>1. CASE Connect(x)
    <3>1. x # "binance"
      BY <2>1 DEF Connect
    <3>2. QED
      BY <1>0, <2>1, <3>1 DEF Connect, BeginBootstrap
  <2>2. CASE HandleSignal(x)
    <3> DEFINE j == Head(signals[x])
    <3>1. j \in Keys
      BY <2>2 DEF HandleSignal, TypeOK
    <3>2. CASE x = "binance"
      <4>1. ~(ExchangeOf(j) = x /\ j[2] \in ActiveSubs(x))
        BY <3>1, <3>2 DEF LowerCaseNames, KeysOf, ActiveSubs
      <4>2. QED
        BY <2>2, <4>1 DEF HandleSignal
    <3>3. CASE x # "binance"
      <4>1. ExchangeOf(j) = x => j # k
        BY <1>0, <3>3
      <4>2. QED
        BY <1>0, <2>2, <3>1, <3>3, <4>1 DEF HandleSignal, BeginBootstrap
    <3>4. QED
      BY <3>2, <3>3
  <2>3. QED
    BY <1>5, <2>1, <2>2
<1>6. ASSUME NEW x \in Exchanges,
             (\E i \in Names(x) : FetchSnapshot(x, i)) \/ BootstrapFails(x) \/ PushSnapshot(x)
      PROVE  FALSE
  <2>1. phase[x] = "bootstrap"
    BY <1>6 DEF FetchSnapshot, BootstrapFails, PushSnapshot
  <2>2. QED
    BY <2>1
<1>7. ASSUME NEW x \in Exchanges, Disconnect(x)
      PROVE  \/ phase'["binance"] = "down" /\ UNCHANGED cmdQ
             \/ /\ phase'["binance"] = "running" /\ sync'[k] = sync[k] /\ UNCHANGED cmdQ
                /\ stream'[k] = stream[k] /\ pos'[k] = pos[k] /\ owed'[k] = owed[k]
  BY <1>0, <1>7 DEF Disconnect
<1>8. QED
  BY <1>1, <1>2, <1>3, <1>4, <1>5, <1>6, <1>7 DEF ConnNext

(* What one event sent adds to the command channel.                        *)
LEMMA SendAdds ==
    ASSUME TypeOK, NEW ev \in ValidEvents, SendEvent(ev)
    PROVE  /\ cmdQ \in Seq(Commands) /\ Len(cmdQ') \in Nat
           /\ \A n \in 1 .. Len(cmdQ') : \/ n <= Len(cmdQ) /\ cmdQ'[n] = cmdQ[n]
                                         \/ n > Len(cmdQ) /\ cmdQ'[n].event = ev
<1>1. cmdQ \in Seq(Commands) /\ Update(ev).event = ev /\ Len(cmdQ) \in Nat
  BY DEF TypeOK, Update
<1> DEFINE m == Update(ev)
<1>2. cmdQ' = cmdQ \/ cmdQ' = Append(cmdQ, m)
  BY DEF SendEvent, TrySend
<1>3. m.event = ev
  BY <1>1
<1> HIDE DEF m
<1>4. CASE cmdQ' = cmdQ
  BY <1>1, <1>4
<1>5. CASE cmdQ' = Append(cmdQ, m)
  <2>1. Len(cmdQ') = Len(cmdQ) + 1 /\ cmdQ'[Len(cmdQ) + 1] = m
    BY <1>1, <1>5
  <2>2. \A n \in 1 .. Len(cmdQ) : cmdQ'[n] = cmdQ[n]
    BY <1>1, <1>5
  <2>3. \A n \in 1 .. Len(cmdQ') : n \in 1 .. Len(cmdQ) \/ n = Len(cmdQ) + 1
    BY <1>1, <2>1
  <2>4. QED
    BY <1>1, <1>3, <2>1, <2>2, <2>3
<1>6. QED
  BY <1>2, <1>4, <1>5

(* A step that is not the connectors' adds no event to the channel.        *)
LEMMA OthersAddNone ==
    ASSUME TypeOK, Worker \/ SnapshotTicker \/ Drain
    PROVE  /\ UNCHANGED connVars
           /\ \A n \in 1 .. Len(cmdQ') :
                 cmdQ'[n].type = "Update" => /\ ~(n > Len(cmdQ))
                                             /\ \E m \in 1 .. Len(cmdQ) : cmdQ'[n] = cmdQ[m]
<1>0. UNCHANGED connVars /\ cmdQ \in Seq(Commands) /\ Len(cmdQ) \in Nat
  BY DEF Worker, SnapshotTicker, Drain, TypeOK
<1>1. CASE Worker
  <2>1. cmdQ # <<>> /\ cmdQ' = Tail(cmdQ)
    BY <1>1 DEF Worker, Process
  <2>2. Len(cmdQ') = Len(cmdQ) - 1 /\ \A n \in 1 .. Len(cmdQ') : cmdQ'[n] = cmdQ[n + 1]
    BY <1>0, <2>1, HeadTailProperties
  <2>3. \A n \in 1 .. Len(cmdQ') : n + 1 \in 1 .. Len(cmdQ) /\ ~(n > Len(cmdQ))
    BY <1>0, <2>2
  <2>4. QED
    BY <1>0, <2>2, <2>3
<1>2. CASE Drain
  <2>1. cmdQ' = cmdQ
    BY <1>2 DEF Drain, IngestionRecv, AuditRecv
  <2>2. QED
    BY <1>0, <2>1
<1>3. CASE SnapshotTicker
  <2>1. cmdQ' = cmdQ \/ cmdQ' = Append(cmdQ, TakeSnapShot)
    BY <1>3 DEF SnapshotTicker, Ticker, TrySend
  <2> DEFINE m == TakeSnapShot
  <2>2. m.type # "Update"
    BY DEF TakeSnapShot
  <2> HIDE DEF m
  <2>3. CASE cmdQ' = Append(cmdQ, m)
    <3>1. /\ Len(cmdQ') = Len(cmdQ) + 1 /\ cmdQ'[Len(cmdQ) + 1] = m
          /\ \A n \in 1 .. Len(cmdQ) : cmdQ'[n] = cmdQ[n]
      BY <1>0, <2>3
    <3>2. \A n \in 1 .. Len(cmdQ') : n \in 1 .. Len(cmdQ) \/ n = Len(cmdQ) + 1
      BY <1>0, <3>1
    <3>3. QED
      BY <1>0, <2>2, <3>1, <3>2
  <2>4. QED
    BY <1>0, <2>1, <2>3 DEF m
<1>4. QED
  BY <1>1, <1>2, <1>3

LEMMA StrandedStep ==
    ASSUME LowerCaseNames, TypeOK, Conn, [PipelineNext]_allVars,
           NEW k \in KeysOf("binance"), Stranded(k)
    PROVE  Stranded(k)' \/ phase'["binance"] = "down"
<1>0. k \in Keys /\ ExchangeOf(k) = "binance" /\ phase["binance"] = "running"
  BY DEF KeysOf, Stranded
<1>1. CASE Connectors
  <2>1. cursor' = cursor
    BY <1>1 DEF Connectors, indexerVars, bookVars
  <2>2. \/ phase'["binance"] = "down"
        \/ phase'["binance"] = "running" /\ UNCHANGED cmdQ
        \/ /\ phase'["binance"] = "running"
           /\ \E ev \in ValidEvents : SendEvent(ev) /\ (ev.key # k \/ ~ev.is_snapshot)
    <3>1. CASE ReceiveBinanceDiff(k) /\ phase'["binance"] = "running"
      <4>1. PICK u : DiffDropped(k, u) \/ \E prev \in Versions : DiffSent(k, u, prev)
        BY <1>0, <3>1, DiffSends
      <4>2. QED
        BY <3>1, <4>1 DEF DiffDropped, DiffSent
    <3>2. QED
      BY <1>0, <1>1, <3>1, RunningBinance DEF Connectors
  <2>3. CASE phase'["binance"] = "running" /\ UNCHANGED cmdQ
    BY <1>0, <2>1, <2>3 DEF Stranded, SnapshotQueued
  <2>4. CASE /\ phase'["binance"] = "running"
             /\ \E ev \in ValidEvents : SendEvent(ev) /\ (ev.key # k \/ ~ev.is_snapshot)
    <3>1. PICK ev \in ValidEvents : SendEvent(ev) /\ (ev.key # k \/ ~ev.is_snapshot)
      BY <2>4
    <3>2. \A n \in 1 .. Len(cmdQ') : \/ n \in 1 .. Len(cmdQ) /\ cmdQ'[n] = cmdQ[n]
                                     \/ cmdQ'[n].event = ev
      BY <3>1, SendAdds
    <3>3. ~SnapshotQueued(k)'
      BY <3>1, <3>2 DEF Stranded, SnapshotQueued
    <3>4. QED
      BY <1>0, <2>1, <2>4, <3>3 DEF Stranded
  <2>5. QED
    BY <2>2, <2>3, <2>4
<1>2. CASE Worker \/ SnapshotTicker \/ Drain
  <2>1. phase' = phase /\ ~SnapshotQueued(k)'
    BY <1>2, OthersAddNone DEF Stranded, SnapshotQueued, connVars
  <2>2. cursor'[k].state # "Synced"
    <3>1. CASE Worker
      <4>1. cmdQ # <<>> /\ cmdQ \in Seq(Commands) /\ Head(cmdQ) = cmdQ[1] /\ 1 \in 1 .. Len(cmdQ)
        BY <3>1 DEF Worker, Process, TypeOK
      <4> DEFINE ev == cmdQ[1].event
      <4>2. ~(cmdQ[1].type = "Update" /\ ev.key = k /\ ev.is_snapshot)
        BY <4>1 DEF Stranded, SnapshotQueued
      <4>3. CASE EmitSnapshots \/ (cmdQ[1].type = "Update" /\ IgnoreUnsynced(ev))
        BY <4>3 DEF EmitSnapshots, IgnoreUnsynced, bookVars, Stranded
      <4>4. CASE cmdQ[1].type = "Update" /\ (LoadSnapshot(ev) \/ MarkCorrupted(ev) \/ ApplyDelta(ev))
        <5>1. ev.key # k
          BY <4>2, <4>4 DEF LoadSnapshot, MarkCorrupted, ApplyDelta, Stranded
        <5>2. cursor'[k] = cursor[k]
          BY <4>4, <5>1, <1>0 DEF LoadSnapshot, MarkCorrupted, ApplyDelta, TypeOK
        <5>3. QED
          BY <5>2 DEF Stranded
      <4>5. QED
        BY <3>1, <4>1, <4>3, <4>4 DEF Worker, Process, HandleEvent
    <3>2. CASE SnapshotTicker \/ Drain
      BY <3>2 DEF SnapshotTicker, Drain, Ticker, IngestionRecv, AuditRecv, bookVars, Stranded
    <3>3. QED
      BY <1>2, <3>1, <3>2
  <2>3. QED
    BY <2>1, <2>2 DEF Stranded
<1>3. CASE UNCHANGED allVars
  BY <1>3 DEF allVars, vars, connVars, bookVars, Stranded, SnapshotQueued
<1>4. QED
  BY <1>1, <1>2, <1>3 DEF PipelineNext

LEMMA BridgeStep ==
    ASSUME LowerCaseNames, TypeOK, Conn, [PipelineNext]_allVars,
           NEW k \in KeysOf("binance"), BridgeMissed(k)
    PROVE  ~DeltaSent(k) /\ (BridgeMissed(k)' \/ phase'["binance"] = "down")
<1>0. k \in Keys /\ ExchangeOf(k) = "binance" /\ phase["binance"] = "running"
  BY DEF KeysOf, BridgeMissed
<1>1. ASSUME UNCHANGED cmdQ PROVE ~DeltaSent(k)
  BY <1>1 DEF DeltaSent, TypeOK
<1>2. CASE Connectors
  <2>1. CASE phase'["binance"] = "down" /\ UNCHANGED cmdQ
    BY <1>1, <2>1
  <2>2. CASE ReceiveBinanceDiff(k) /\ phase'["binance"] = "running"
    <3>1. PICK u \in pos[k] + 1 .. version[k] :
                /\ pos' = [pos EXCEPT ![k] = u]
                /\ u \in Versions
                /\ DiffDropped(k, u)
      BY <1>0, <2>2, DiffSends DEF BridgeMissed
    <3>2. pos'[k] = u /\ pos[k] < u /\ sync[k].id < u
      <4>1. pos[k] \in Nat /\ sync[k].id \in Nat /\ u \in Nat /\ pos[k] < u
        BY <1>0, <3>1, PositionFacts DEF Versions
      <4>2. QED
        BY <1>0, <3>1, <4>1 DEF BridgeMissed, Conn, ConnTypeOK
    <3>3. UNCHANGED <<cmdQ, sync, stream, owed>>
      BY <2>2, <3>1 DEF DiffDropped, ReceiveBinanceDiff
    <3>4. QED
      BY <1>0, <1>1, <2>2, <3>2, <3>3 DEF BridgeMissed
  <2>3. CASE /\ phase'["binance"] = "running"
             /\ sync'[k] = sync[k]
             /\ ~owed[k] => stream'[k] = stream[k] /\ pos'[k] = pos[k] /\ ~owed'[k]
             /\ \/ UNCHANGED cmdQ
                \/ \E ev \in ValidEvents : SendEvent(ev) /\ ev.key # k
    <3>1. BridgeMissed(k)'
      BY <1>0, <2>3 DEF BridgeMissed
    <3>2. ASSUME NEW ev \in ValidEvents, SendEvent(ev), ev.key # k PROVE ~DeltaSent(k)
      BY <3>2, SendAdds DEF DeltaSent
    <3>3. QED
      BY <1>1, <2>3, <3>1, <3>2
  <2>4. QED
    BY <1>0, <1>2, <2>1, <2>2, <2>3, RunningBinance DEF Connectors
<1>3. CASE Worker \/ SnapshotTicker \/ Drain
  BY <1>3, OthersAddNone DEF connVars, BridgeMissed, DeltaSent
<1>4. CASE UNCHANGED allVars
  BY <1>1, <1>4 DEF allVars, vars, connVars, BridgeMissed
<1>5. QED
  BY <1>2, <1>3, <1>4 DEF PipelineNext

(* A Binance book that lost its sequence while its connection stays up     *)
(* gets no snapshot before that connection ends: the restart signal of the *)
(* gap is skipped, whatever the exchange, the channels and the other books *)
(* do.                                                                     *)
THEOREM StrandedStays ==
    ASSUME LowerCaseNames
    PROVE  PipelineSpec => StrandedUntilReconnect
<1> DEFINE P == \A k \in KeysOf("binance") :
                   Stranded(k) => Stranded(k)' \/ phase'["binance"] = "down"
<1>1. IInv /\ Conn /\ [PipelineNext]_allVars => P
  BY StrandedStep DEF IInv
<1>2. IInv /\ Conn /\ [PipelineNext]_allVars => [P]_allVars
  BY <1>1
<1>3. QED
  BY <1>2, PipelineInvariant, PTL DEF PipelineSpec, StrandedUntilReconnect

(* An adapter that missed the bridge of its snapshot passes nothing of the *)
(* book on until the connection ends.                                      *)
THEOREM BridgeMissStaysSilent ==
    ASSUME LowerCaseNames
    PROVE  PipelineSpec => BridgeMissIsSilent
<1> DEFINE P == \A k \in KeysOf("binance") :
                   BridgeMissed(k) => /\ ~DeltaSent(k)
                                      /\ BridgeMissed(k)' \/ phase'["binance"] = "down"
<1>1. IInv /\ Conn /\ [PipelineNext]_allVars => P
  BY BridgeStep DEF IInv
<1>2. IInv /\ Conn /\ [PipelineNext]_allVars => [P]_allVars
  BY <1>1
<1>3. QED
  BY <1>2, PipelineInvariant, PTL DEF PipelineSpec, BridgeMissIsSilent
=============================================================================
