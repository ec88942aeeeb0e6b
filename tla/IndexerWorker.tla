--------------------------- MODULE IndexerWorker ----------------------------
(***************************************************************************)
(* OrderBooksIndexerWorker: the single task that owns every order book.    *)
(* It takes commands from a bounded channel that the connectors and the    *)
(* 50 ms snapshot ticker fill with try_send, keeps a cursor per symbol     *)
(* that detects sequence gaps, and publishes rows to the ingestion channel,*)
(* audit events and restart signals, all three without waiting.            *)
(*                                                                         *)
(* Connectors are an open environment here: Offer puts any valid event in  *)
(* the channel, in any order, so that what is proved of this module rests  *)
(* on nothing but the truth of single events.  BookPipeline replaces Offer *)
(* by the real connectors.                                                 *)
(***************************************************************************)
EXTENDS LocalBooks, SequencesExt

VARIABLE audit      \* the audit channel

outVars  == <<signals, ingestion, audit>>
vars     == <<cmdQ, cursor, book, signals, ingestion, audit, lost>>

(* A cursor that was never created behaves as one awaiting its snapshot.   *)
(* BookState::Corrupted exists only inside handle_event, between the gap   *)
(* and the return to AwaitingSnapshot.                                     *)
BookState == {"AwaitingSnapshot", "Synced"}
Cursors   == [state : BookState, last_seq_id : Nat, last_ts : Nat]

(* BookTbT and BookSnapShot.  History: the update `of` which the row is.   *)
TickRow(k, v, ts, l, s) ==
    [type |-> "Tick", key |-> k, of |-> v, stamp |-> TickStamp(ts), level |-> l, size |-> s]
SnapshotRow(k, v, ts, b) ==
    [type |-> "Snapshot", key |-> k, of |-> v, stamp |-> SnapshotStamp(ts), levels |-> b]

TickRows ==
    [type : {"Tick"}, key : Keys, of : Versions, stamp : Int, level : Levels, size : Sizes]
SnapRows == [type : {"Snapshot"}, key : Keys, of : Versions, stamp : Int, levels : Books]
Rows     == TickRows \cup SnapRows

Init ==
    /\ cmdQ = <<>>
    /\ cursor = [k \in Keys |-> [state |-> "AwaitingSnapshot", last_seq_id |-> 0, last_ts |-> 0]]
    /\ book = [k \in Keys |-> EmptyBook]
    /\ signals = [x \in Exchanges |-> <<>>]
    /\ ingestion = <<>>
    /\ audit = <<>>
    /\ lost = {}

-----------------------------------------------------------------------------
(* The senders.                                                            *)

LostIf(full, k, what) == lost' = IF full THEN lost \cup {<<k, what>>} ELSE lost

(* data_sender.try_send(Update(event)) in a connector.                     *)
Offer(ev) ==
    /\ cmdQ' = TrySend(cmdQ, CmdCap, Update(ev))
    /\ LostIf(~HasRoom(cmdQ, CmdCap), ev.key, IF ev.is_snapshot THEN "snapshot" ELSE "delta")
    /\ UNCHANGED <<bookVars, outVars>>

(* One tick of the snapshot_ticker service.                                *)
Ticker ==
    /\ cmdQ' = TrySend(cmdQ, CmdCap, TakeSnapShot)
    /\ UNCHANGED <<bookVars, outVars, lost>>

-----------------------------------------------------------------------------
(* handle_event, one disjunct per way through it.                          *)

(* The cursor behind an event that was loaded or applied.                  *)
At(ev) == [state |-> "Synced", last_seq_id |-> ev.seq_id, last_ts |-> ev.timestamp]

(* Faulty variants: a synced book takes no snapshot; a snapshot leaves the *)
(* time of the cursor as it was.                                           *)
LoadSnapshot_OnlyUnsynced(ev) ==
    /\ ev.is_snapshot
    /\ IF cursor[ev.key].state = "Synced" THEN UNCHANGED bookVars
       ELSE /\ book' = [book EXCEPT ![ev.key] = LocalDepth(ev.key, ApplyLevels(EmptyBook, ev.levels))]
            /\ cursor' = [cursor EXCEPT ![ev.key] = At(ev)]
    /\ UNCHANGED <<outVars, lost>>

LoadSnapshot_KeepsTime(ev) ==
    /\ ev.is_snapshot
    /\ book' = [book EXCEPT ![ev.key] = LocalDepth(ev.key, ApplyLevels(EmptyBook, ev.levels))]
    /\ cursor' = [cursor EXCEPT ![ev.key] = [At(ev) EXCEPT !.last_ts = cursor[ev.key].last_ts]]
    /\ UNCHANGED <<outVars, lost>>

(* is_snapshot: clear, load, truncate; the cursor follows the snapshot     *)
(* whatever it was, also backwards.                                        *)
LoadSnapshot(ev) ==
    /\ ev.is_snapshot
    /\ book' = [book EXCEPT ![ev.key] = LocalDepth(ev.key, ApplyLevels(EmptyBook, ev.levels))]
    /\ cursor' = [cursor EXCEPT ![ev.key] = At(ev)]
    /\ UNCHANGED <<outVars, lost>>

(* A delta for a book that has no snapshot: return, and tell nobody.       *)
IgnoreUnsynced(ev) ==
    /\ ~ev.is_snapshot
    /\ cursor[ev.key].state # "Synced"
    /\ UNCHANGED <<bookVars, outVars, lost>>

(* Faulty variant: one update may be missing.                              *)
Gap_OneMissing(ev) == ev.prev_seq_id > cursor[ev.key].last_seq_id + 1

(* The gap check: prev_seq_id 0 passes unchecked.                          *)
Gap(ev) == ev.prev_seq_id # 0 /\ ev.prev_seq_id # cursor[ev.key].last_seq_id

(* restart_signal_tx.send: every receiver gets the signal; one that is     *)
(* SignalCap behind loses its oldest and later sees Lagged, which the      *)
(* connector skips.                                                        *)
Broadcast(k) ==
    /\ signals' = [x \in Exchanges |->
           IF Len(signals[x]) < SignalCap THEN Append(signals[x], k)
                                          ELSE Append(Tail(signals[x]), k)]
    /\ lost' = lost \cup {<<Head(signals[x]), "signal">> :
                              x \in {y \in Exchanges : Len(signals[y]) >= SignalCap
                                                       /\ Head(signals[y])[1] = y}}

(* A sequence gap: mark_corrupted, and the book awaits a snapshot.         *)
MarkCorrupted(ev) ==
    /\ ~ev.is_snapshot
    /\ cursor[ev.key].state = "Synced"
    /\ Gap(ev)
    /\ cursor' = [cursor EXCEPT ![ev.key].state = "AwaitingSnapshot"]
    /\ audit' = TrySend(audit, AuditCap, ev.key)
    /\ Broadcast(ev.key)
    /\ UNCHANGED <<book, ingestion>>


(* emit_ticks: one row per level of the event; for Binance only the levels *)
(* found among the best BINANCE_PUBLISH_DEPTH of the updated book b.       *)
Ticks(ev, b) ==
    LET shown == IF ExchangeOf(ev.key) = "binance"
                 THEN {l \in DOMAIN ev.levels : TopOf(b, BINANCE_PUBLISH_DEPTH)[l] > 0}
                 ELSE DOMAIN ev.levels
    IN  {TickRow(ev.key, ev.seq_id, ev.timestamp, l, ev.levels[l]) : l \in shown}

(* The rows of one command go out one try_send at a time, in the order of  *)
(* the vectors of the event or of the hash map: any order.                 *)
Publish(rows) ==
    \E s \in SetToSeqs(rows) : ingestion' = TrySendAll(ingestion, IngestCap, s)

(* The delta continues the book: apply, truncate, emit ticks, advance.     *)
ApplyDelta(ev) ==
    LET b == LocalDepth(ev.key, ApplyLevels(book[ev.key], ev.levels)) IN
    /\ ~ev.is_snapshot
    /\ cursor[ev.key].state = "Synced"
    /\ ~Gap(ev)
    /\ book' = [book EXCEPT ![ev.key] = b]
    /\ cursor' = [cursor EXCEPT ![ev.key] = At(ev)]
    /\ Publish(Ticks(ev, b))
    /\ UNCHANGED <<signals, audit, lost>>

HandleEvent(ev) == \/ LoadSnapshot(ev)
                   \/ IgnoreUnsynced(ev)
                   \/ MarkCorrupted(ev)
                   \/ ApplyDelta(ev)

(* emit_snapshots: a row with the best levels of every synced book.        *)
SnapshotRows ==
    LET synced == {k \in Keys : cursor[k].state = "Synced" /\ cursor[k].last_ts # 0}
    IN  {SnapshotRow(k, cursor[k].last_seq_id, cursor[k].last_ts,
                     TopOf(book[k], PublishDepth(k))) : k \in synced}

EmitSnapshots ==
    /\ Publish(SnapshotRows)
    /\ UNCHANGED <<bookVars, signals, audit, lost>>

(* run / process: one command from the channel.                            *)
Process ==
    /\ cmdQ # <<>>
    /\ cmdQ' = Tail(cmdQ)
    /\ \/ Head(cmdQ).type = "Update" /\ HandleEvent(Head(cmdQ).event)
       \/ Head(cmdQ).type = "TakeSnapShot" /\ EmitSnapshots

-----------------------------------------------------------------------------
(* The receivers at the other ends.                                        *)

IngestionRecv ==
    /\ ingestion # <<>>
    /\ ingestion' = Tail(ingestion)
    /\ UNCHANGED <<cmdQ, bookVars, signals, audit, lost>>

AuditRecv ==
    /\ audit # <<>>
    /\ audit' = Tail(audit)
    /\ UNCHANGED <<cmdQ, bookVars, signals, ingestion, lost>>

SignalRecv(x) ==
    /\ signals[x] # <<>>
    /\ signals' = [signals EXCEPT ![x] = Tail(@)]
    /\ UNCHANGED <<cmdQ, bookVars, ingestion, audit, lost>>

Next ==
    \/ \E ev \in ValidEvents : Offer(ev)
    \/ Ticker
    \/ Process
    \/ IngestionRecv
    \/ AuditRecv
    \/ \E x \in Exchanges : SignalRecv(x)

Spec == Init /\ [][Next]_vars

-----------------------------------------------------------------------------
(* Every variable stays in its range and every channel within its          *)
(* capacity, full channels included.                                       *)
TypeOK ==
    /\ cmdQ \in Seq(Commands) /\ Len(cmdQ) <= CmdCap
    /\ cursor \in [Keys -> Cursors]
    /\ book \in [Keys -> Books]
    /\ signals \in [Exchanges -> Seq(Keys)]
    /\ \A x \in Exchanges : Len(signals[x]) <= SignalCap
    /\ ingestion \in Seq(Rows) /\ Len(ingestion) <= IngestCap
    /\ audit \in Seq(Keys) /\ Len(audit) <= AuditCap
    /\ lost \subseteq Keys \X Losses
=============================================================================
