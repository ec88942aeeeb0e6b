---------------------------- MODULE BookPipeline ----------------------------
(***************************************************************************)
(* The order-book half of the process: the connectors of every exchange,   *)
(* the snapshot ticker and the indexer, joined by the command channel and  *)
(* the restart broadcast.  The connectors take the place of the open       *)
(* environment of IndexerWorker.                                           *)
(***************************************************************************)
EXTENDS ExchangeConnector, IndexerWorker

indexerVars == <<bookVars, ingestion, audit>>
allVars == <<vars, connVars>>

PipelineInit == Init /\ ConnInit

Connectors == ConnNext /\ UNCHANGED indexerVars

(* The indexer shares only the channels with the connectors.               *)
Worker == Process /\ UNCHANGED connVars

SnapshotTicker == Ticker /\ UNCHANGED connVars

(* The ingestion and audit tasks empty their channels.                     *)
Drain == (IngestionRecv \/ AuditRecv) /\ UNCHANGED connVars

PipelineNext == Connectors \/ Worker \/ SnapshotTicker \/ Drain

PipelineSpec == PipelineInit /\ [][PipelineNext]_allVars

(* Fairness that tokio's scheduler and an exchange that stays up give: the *)
(* indexer goes on while it has commands, every receiver empties its       *)
(* channel, a connector takes what is ready for it, and the exchange       *)
(* serves a subscription it was sent.  Nothing makes the exchange's books  *)
(* change, a request fail or a connection end.                             *)
Fairness ==
    /\ WF_allVars(Worker)
    /\ WF_allVars(Drain)
    /\ \A k \in Keys : /\ WF_allVars(ServeSubscription(k) /\ UNCHANGED indexerVars)
                       /\ WF_allVars(ReceiveSnapshot(k) /\ UNCHANGED indexerVars)
                       /\ WF_allVars(ReceiveBybitDelta(k) /\ UNCHANGED indexerVars)
                       /\ WF_allVars(ReceiveBinanceDiff(k) /\ UNCHANGED indexerVars)
    /\ \A x \in Exchanges : /\ WF_allVars(Connect(x) /\ UNCHANGED indexerVars)
                            /\ WF_allVars((\E i \in Names(x) : FetchSnapshot(x, i)) /\ UNCHANGED indexerVars)
                            /\ WF_allVars(PushSnapshot(x) /\ UNCHANGED indexerVars)
                            /\ WF_allVars(HandleSignal(x) /\ UNCHANGED indexerVars)

FairSpec == PipelineSpec /\ Fairness

-----------------------------------------------------------------------------
(* Every variable in its range.                                            *)
PipelineTypeOK == TypeOK /\ ConnTypeOK

(* The connectors are the environment the indexer relies on: whatever they *)
(* do with late, repeated, failed and dropped messages, an event they send *)
(* never claims to continue an update it does not continue.  Spec is that  *)
(* of IndexerWorker, whose theorems hold of the process through this one.  *)
ImplementsIndexer == Spec

(* A sequence gap of a book is reported only if an event of that very book *)
(* was dropped or its bootstrap failed: neither a reconnection, nor the    *)
(* bridge from a REST snapshot to the stream, nor a resubscription, nor    *)
(* what happens to another book makes one.                                 *)
NoSpuriousGap ==
    \A n \in 1 .. Len(audit) :
        \/ audit[n] \in failed
        \/ \E what \in Losses : <<audit[n], what>> \in lost

SnapshotQueued(k) ==
    \E n \in 1 .. Len(cmdQ) : cmdQ[n].type = "Update" /\ cmdQ[n].event.key = k
                                                     /\ cmdQ[n].event.is_snapshot

(* A Binance book without a snapshot, on a connection that is past its     *)
(* bootstrap, stays without one until that connection ends: main.rs        *)
(* configures lower-case names, the restart signal of the gap carries the  *)
(* upper-case symbol, active_subs does not contain it, and nothing else    *)
(* asks for a snapshot.                                                    *)
Stranded(k) ==
    /\ cursor[k].state # "Synced"
    /\ phase[ExchangeOf(k)] = "running"
    /\ ~SnapshotQueued(k)

StrandedUntilReconnect ==
    [][\A k \in KeysOf("binance") :
          Stranded(k) => Stranded(k)' \/ phase'["binance"] = "down"]_allVars

(* The diff that would bridge a REST snapshot was published before the     *)
(* subscription was served: the adapter waits for it, and drops whatever   *)
(* comes, until the connection ends, and no gap is ever reported to the    *)
(* indexer, whose book goes on as if nothing happened in the market.       *)
BridgeMissed(k) ==
    /\ phase[ExchangeOf(k)] = "running"
    /\ stream[k] = "on"
    /\ ~owed[k]
    /\ sync[k].mode = "AwaitingBridge"
    /\ sync[k].id < pos[k]

DeltaSent(k) ==
    \E n \in 1 .. Len(cmdQ') : /\ n > Len(cmdQ)
                              /\ cmdQ'[n].type = "Update"
                              /\ cmdQ'[n].event.key = k

BridgeMissIsSilent ==
    [][\A k \in KeysOf("binance") :
          BridgeMissed(k) => /\ ~DeltaSent(k)
                             /\ BridgeMissed(k)' \/ phase'["binance"] = "down"]_allVars

(* A Bybit book that lost its sequence, or never had one, gets a snapshot: *)
(* restart signal, resubscription, snapshot frame and queue all do their   *)
(* part unless a snapshot or a signal of that book was dropped on the way. *)
Resyncs ==
    \A k \in KeysOf("bybit") :
        (cursor[k].state # "Synced")
            ~> \/ cursor[k].state = "Synced"
               \/ <<k, "snapshot">> \in lost
               \/ <<k, "signal">> \in lost

(* While nothing is dropped, the local Bybit book reaches every update of  *)
(* the exchange, through reconnections too.                                *)
CatchesUp ==
    \A k \in KeysOf("bybit") : \A v \in Versions :
        (version[k] = v) ~> (cursor[k].last_seq_id >= v \/ lost # {})
=============================================================================
