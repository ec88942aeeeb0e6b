-------------------------- MODULE ExchangeConnector -------------------------
(***************************************************************************)
(* ExchangeConnector::run with the Binance and the Bybit adapter: one task *)
(* per exchange that connects, subscribes, bootstraps Binance books over   *)
(* REST, and then serves one websocket, turning frames into commands and   *)
(* restart signals into resubscriptions.                                   *)
(*                                                                         *)
(* The exchange at the other end is external.  Its books move on by        *)
(* themselves (version); a subscription is served some time after it was   *)
(* sent; frames wait in the connection, in order and without loss, and are *)
(* cut to update ranges when they are read: a frame covers the updates     *)
(* from pos + 1 to some update the exchange has reached.                   *)
(***************************************************************************)
EXTENDS BookFeed, BinanceSync

CONSTANTS
    RestLag,        \* how many updates a REST snapshot may be behind
    MaxConn         \* bound: connections per exchange

VARIABLES
    version,        \* exchange: the latest update of each book
    stream,         \* exchange: per key, "off", "on", or a snapshot to come
    pos,            \* exchange: the last update the connection has read
    owed,           \* exchange: subscriptions sent and not yet served
    phase,          \* connector: "down", "bootstrap" or "running"
    todo,           \* connector: instruments whose snapshot is to be fetched
    fetched,        \* connector: the snapshots bootstrap_events collected
    sync,           \* Binance adapter: sync_state
    conns,          \* connections made so far
    failed          \* history: the books whose bootstrap has failed

wireVars == <<version, stream, pos, owed>>
connVars == <<version, stream, pos, owed, phase, todo, fetched, sync, conns, failed>>

ASSUME ConnAssumption ==
    /\ Exchanges \subseteq {"binance", "bybit"}
    /\ RestLag \in Nat
    /\ MaxConn \in Nat

KeysOf(x) == {k \in Keys : ExchangeOf(k) = x}
KeyOf(x, i) == <<x, EventSymbol(x, i)>>

(* bootstrap_events: only the Binance adapter overrides the trait's        *)
(* default, which returns no event.                                        *)
Bootstraps(x) == x = "binance"

Phases  == {"down", "bootstrap", "running"}
Streams == {"off", "snapshot", "on"}

(* The instruments of x under the names the code has for them: configured  *)
(* ones, and the symbols that restart signals carry.                       *)
Names(x) == Instruments[x] \cup {k[2] : k \in KeysOf(x)}

ConnInit ==
    /\ version = [k \in Keys |-> 1]
    /\ stream = [k \in Keys |-> "off"]
    /\ pos = [k \in Keys |-> 0]
    /\ owed = [k \in Keys |-> FALSE]
    /\ phase = [x \in Exchanges |-> "down"]
    /\ todo = [x \in Exchanges |-> {}]
    /\ fetched = [x \in Exchanges |-> <<>>]
    /\ sync = [k \in Keys |-> NoState]
    /\ conns = [x \in Exchanges |-> 0]
    /\ failed = {}

-----------------------------------------------------------------------------
(* The exchange.                                                           *)

(* A book changes.                                                         *)
ExchangeUpdate(k) ==
    /\ version[k] < MaxVersion
    /\ version' = [version EXCEPT ![k] = @ + 1]
    /\ UNCHANGED <<stream, pos, owed, phase, todo, fetched, sync, conns, failed,
                   cmdQ, signals, lost>>

(* A subscription is served: the stream goes on from the present update,   *)
(* on Bybit with a snapshot of it in front.                                *)
ServeSubscription(k) ==
    /\ owed[k]
    /\ owed' = [owed EXCEPT ![k] = FALSE]
    /\ stream' = [stream EXCEPT ![k] = IF Bootstraps(ExchangeOf(k)) THEN "on" ELSE "snapshot"]
    /\ pos' = [pos EXCEPT ![k] = version[k]]
    /\ UNCHANGED <<version, phase, todo, fetched, sync, conns, failed, cmdQ, signals, lost>>

-----------------------------------------------------------------------------
(* data_sender.try_send(Update(event)), the Err discarded.                 *)
SendEvent(ev) ==
    /\ cmdQ' = TrySend(cmdQ, CmdCap, Update(ev))
    /\ lost' = IF HasRoom(cmdQ, CmdCap) THEN lost
               ELSE lost \cup {<<ev.key, IF ev.is_snapshot THEN "snapshot" ELSE "delta">>}

(* push_bootstrap_events begins: instruments to fetch, or nothing to do.   *)
BeginBootstrap(x, instruments) ==
    /\ phase' = [phase EXCEPT ![x] = IF Bootstraps(x) THEN "bootstrap" ELSE "running"]
    /\ todo' = [todo EXCEPT ![x] = IF Bootstraps(x) THEN instruments ELSE {}]
    /\ fetched' = [fetched EXCEPT ![x] = <<>>]

(* run: connect, subscribe to every instrument, bootstrap.  A connection   *)
(* or a subscribe message that fails leaves the connector down.            *)
Connect(x) ==
    /\ phase[x] = "down"
    /\ conns[x] < MaxConn
    /\ conns' = [conns EXCEPT ![x] = @ + 1]
    /\ owed' = [k \in Keys |-> owed[k] \/ ExchangeOf(k) = x]
    /\ BeginBootstrap(x, Instruments[x])
    /\ UNCHANGED <<version, stream, pos, sync, failed, cmdQ, signals, lost>>

(* One round of the loop of bootstrap_events: the adapter's state is set   *)
(* before the snapshots of the other instruments are known.                *)
FetchSnapshot(x, i) ==
    LET k == KeyOf(x, i) IN
    /\ phase[x] = "bootstrap"
    /\ i \in todo[x]
    /\ \E v \in Versions :
        /\ version[k] - RestLag <= v /\ v <= version[k]
        /\ sync' = [sync EXCEPT ![k] = SetSnapshotState(@, v)]
        /\ fetched' = [fetched EXCEPT ![x] = Append(@, SnapshotEvent(k, v))]
    /\ todo' = [todo EXCEPT ![x] = @ \ {i}]
    /\ UNCHANGED <<wireVars, phase, conns, failed, cmdQ, signals, lost>>

(* A request fails: bootstrap_events returns Err, the snapshots already    *)
(* fetched are discarded, and the connection is served all the same.       *)
BootstrapFails(x) ==
    /\ phase[x] = "bootstrap"
    /\ todo[x] # {}
    /\ phase' = [phase EXCEPT ![x] = "running"]
    /\ todo' = [todo EXCEPT ![x] = {}]
    /\ fetched' = [fetched EXCEPT ![x] = <<>>]
    /\ failed' = failed \cup {KeyOf(x, i) : i \in todo[x]}
                        \cup {fetched[x][n].key : n \in 1 .. Len(fetched[x])}
    /\ UNCHANGED <<wireVars, sync, conns, cmdQ, signals, lost>>

(* push_bootstrap_events sends what was fetched, one try_send at a time.   *)
PushSnapshot(x) ==
    /\ phase[x] = "bootstrap"
    /\ todo[x] = {}
    /\ fetched[x] # <<>>
    /\ SendEvent(Head(fetched[x]))
    /\ fetched' = [fetched EXCEPT ![x] = Tail(@)]
    /\ phase' = [phase EXCEPT ![x] = IF Len(fetched[x]) = 1 THEN "running" ELSE @]
    /\ UNCHANGED <<wireVars, todo, sync, conns, failed, signals>>

-----------------------------------------------------------------------------
(* handle_connection, one action per arm and frame.                        *)

(* A Bybit frame of type "snapshot".                                       *)
ReceiveSnapshot(k) ==
    /\ phase[ExchangeOf(k)] = "running"
    /\ stream[k] = "snapshot"
    /\ stream' = [stream EXCEPT ![k] = "on"]
    /\ SendEvent(SnapshotEvent(k, pos[k]))
    /\ UNCHANGED <<version, pos, owed, phase, todo, fetched, sync, conns, failed, signals>>

(* Faulty variant: the predecessor is off by one.                          *)
ReceiveBybitDelta_OffByOne(k) ==
    LET u == pos[k] + 1 IN
    /\ ExchangeOf(k) = "bybit"
    /\ phase["bybit"] = "running"
    /\ stream[k] = "on"
    /\ u <= version[k]
    /\ pos' = [pos EXCEPT ![k] = u]
    /\ SendEvent(DeltaEvent(k, u, u, u))
    /\ UNCHANGED <<version, stream, owed, phase, todo, fetched, sync, conns, failed, signals>>

(* A Bybit frame of type "delta": u is its update, prev_seq_id is u - 1.   *)
ReceiveBybitDelta(k) ==
    LET u == pos[k] + 1 IN
    /\ ExchangeOf(k) = "bybit"
    /\ phase["bybit"] = "running"
    /\ stream[k] = "on"
    /\ u <= version[k]
    /\ pos' = [pos EXCEPT ![k] = u]
    /\ SendEvent(DeltaEvent(k, u, u - 1, u))
    /\ UNCHANGED <<version, stream, owed, phase, todo, fetched, sync, conns, failed, signals>>

(* A Binance diff of the updates U..u: what resolve_diff_sequence makes of *)
(* it is sent or dropped.                                                  *)
ReceiveBinanceDiff(k) ==
    /\ ExchangeOf(k) = "binance"
    /\ phase["binance"] = "running"
    /\ stream[k] = "on"
    /\ \E u \in pos[k] + 1 .. version[k] :
        LET r == ResolveDiff(sync[k], pos[k] + 1, u) IN
        /\ pos' = [pos EXCEPT ![k] = u]
        /\ sync' = [sync EXCEPT ![k] = r.state]
        /\ IF r.emit THEN SendEvent(DeltaEvent(k, pos[k] + 1, r.prev_seq_id, r.seq_id))
                     ELSE UNCHANGED <<cmdQ, lost>>
    /\ UNCHANGED <<version, stream, owed, phase, todo, fetched, conns, failed, signals>>

(* Variant: the names under which the adapter's events come back.          *)
ActiveSubs_EventSymbols(x) == {EventSymbol(x, i) : i \in Instruments[x]}

(* active_subs: filled with the configured names when the connection is    *)
(* made, and never emptied.                                                *)
ActiveSubs(x) == Instruments[x]

(* Faulty variant: the signal is taken and nothing is subscribed again.    *)
HandleSignal_NoResubscribe(x) ==
    /\ phase[x] = "running"
    /\ signals[x] # <<>>
    /\ signals' = [signals EXCEPT ![x] = Tail(@)]
    /\ UNCHANGED <<connVars, cmdQ, lost>>

(* restart_signal.recv(): a signal of another exchange, or of a symbol not *)
(* found in active_subs, is skipped; any other makes the connector         *)
(* unsubscribe, subscribe again and bootstrap that symbol.                 *)
HandleSignal(x) ==
    /\ phase[x] = "running"
    /\ signals[x] # <<>>
    /\ signals' = [signals EXCEPT ![x] = Tail(@)]
    /\ LET k == Head(signals[x]) IN
         IF ExchangeOf(k) = x /\ k[2] \in ActiveSubs(x)
         THEN /\ owed' = [owed EXCEPT ![k] = TRUE]
              /\ BeginBootstrap(x, {k[2]})
         ELSE UNCHANGED <<owed, phase, todo, fetched>>
    /\ UNCHANGED <<version, stream, pos, sync, conns, failed, cmdQ, lost>>

(* Close, an error or the end of the socket: handle_connection returns     *)
(* false.  What the connection still held is gone.                         *)
Disconnect(x) ==
    /\ phase[x] = "running"
    /\ conns[x] < MaxConn
    /\ phase' = [phase EXCEPT ![x] = "down"]
    /\ stream' = [k \in Keys |-> IF ExchangeOf(k) = x THEN "off" ELSE stream[k]]
    /\ owed' = [k \in Keys |-> owed[k] /\ ExchangeOf(k) # x]
    /\ UNCHANGED <<version, pos, todo, fetched, sync, conns, failed, cmdQ, signals, lost>>

ConnNext ==
    \/ \E k \in Keys : \/ ExchangeUpdate(k)
                       \/ ServeSubscription(k)
                       \/ ReceiveSnapshot(k)
                       \/ ReceiveBybitDelta(k)
                       \/ ReceiveBinanceDiff(k)
    \/ \E x \in Exchanges : \/ Connect(x)
                            \/ \E i \in Names(x) : FetchSnapshot(x, i)
                            \/ BootstrapFails(x)
                            \/ PushSnapshot(x)
                            \/ HandleSignal(x)
                            \/ Disconnect(x)

ConnTypeOK ==
    /\ version \in [Keys -> Versions]
    /\ stream \in [Keys -> Streams]
    /\ pos \in [Keys -> 0 .. MaxVersion]
    /\ owed \in [Keys -> BOOLEAN]
    /\ phase \in [Exchanges -> Phases]
    /\ \A x \in Exchanges : todo[x] \subseteq Names(x)
    /\ fetched \in [Exchanges -> Seq(ValidSnapshots)]
    /\ sync \in [Keys -> SyncStates]
    /\ conns \in [Exchanges -> 0 .. MaxConn]
    /\ failed \subseteq Keys
=============================================================================
