--------------------------- MODULE MCBookPipeline ---------------------------
(***************************************************************************)
(* Instances of BookPipeline for TLC: which instruments are configured, and*)
(* a small history of their books.                                         *)
(***************************************************************************)
EXTENDS BookPipeline, TLC

(* The instruments of main.rs, one or two per exchange.                    *)
MCInstruments ==
    [x \in Exchanges |-> IF x = "binance" THEN {"btcusdt"} ELSE {"BTCUSDT"}]
MCTwoInstruments ==
    [x \in Exchanges |-> IF x = "binance" THEN {"btcusdt", "ethusdt"} ELSE {"BTCUSDT", "ETHUSDT"}]

MCUpper == ("btcusdt" :> "BTCUSDT") @@ ("BTCUSDT" :> "BTCUSDT")
           @@ ("ethusdt" :> "ETHUSDT") @@ ("ETHUSDT" :> "ETHUSDT")

Symbols == {EventSymbol(x, i) : x \in Exchanges, i \in UNION {Instruments[y] : y \in Exchanges}}

(* Odd updates change the one bid, even ones the one ask, and the size is  *)
(* the number of the update: no two states of a book look alike, and a     *)
(* range of updates that leaves one out leaves out what it changed.        *)
MCContent ==
    [k \in Exchanges \X Symbols |-> [v \in 1 .. MaxVersion |->
        [l \in {"bid", "ask"} \X Prices |-> IF (l[1] = "bid") = (v % 2 = 1) THEN v ELSE v - 1]]]

(* Three bids come and go, one ask moves: a level falls behind the local   *)
(* depth and comes back into it, a level keeps a size and changes it, and  *)
(* a range of updates restores what it changed.                            *)
Bid(p) == <<"bid", p>>
Ask(p) == <<"ask", p>>

History == <<
    (Bid(1) :> 1) @@ (Bid(2) :> 1) @@ (Ask(2) :> 1),
    (Bid(1) :> 1) @@ (Bid(2) :> 2) @@ (Bid(3) :> 2) @@ (Ask(2) :> 1),
    (Bid(1) :> 3) @@ (Bid(2) :> 2) @@ (Ask(2) :> 1),
    (Bid(1) :> 3) @@ (Bid(2) :> 1) @@ (Ask(1) :> 3) >>

MCDeepContent ==
    [k \in Exchanges \X Symbols |-> [v \in 1 .. MaxVersion |->
        [l \in {"bid", "ask"} \X Prices |->
            IF l \in DOMAIN History[v] THEN History[v][l] ELSE 0]]]

(* An update every other millisecond, a snapshot in the one after it.      *)
MCTime         == [k \in Exchanges \X Symbols |-> [v \in 1 .. MaxVersion |-> 2 * v - 1]]
MCSnapshotTime == [k \in Exchanges \X Symbols |-> [v \in 1 .. MaxVersion |-> 2 * v]]

(* Nothing happens in the second market: its book is subscribed, fetched,  *)
(* sent, dropped and lost like the other, but its updates are all of one   *)
(* number.                                                                 *)
OneMarketMoves == \A k \in Keys : k[2] = "ETHUSDT" => version'[k] = version[k]
MCSpec == PipelineInit /\ [][PipelineNext /\ OneMarketMoves]_allVars
=============================================================================
