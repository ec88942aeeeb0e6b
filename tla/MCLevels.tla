------------------------------- MODULE MCLevels -------------------------------
(***************************************************************************)
(* What a level goes through, for TLC, in three parts that run apart: the  *)
(* SBE frame it comes in (SbeCodec), the integers it is made of            *)
(* (ScaledBook) and the sorted columns it is kept in (OrderBook).  part    *)
(* says which of the three a behaviour is about; the others stand still.   *)
(*                                                                         *)
(* SbeCodec: up to two levels on a side, symbols of up to two bytes, blocks*)
(* of the length this code knows, longer by three bytes, or long enough to *)
(* look like JSON (18 + 73 = 91).                                          *)
(* ScaledBook: prices are 0.50, 0.60, 1.20 and 8.00 in ticks of a half, up *)
(* to 15 of them: two in one tick, one alone, and one beyond.  Sizes are   *)
(* 0.1, 1.5 and 9.0 in thirds, up to 15: below half of one, a tie, and     *)
(* beyond.  A millisecond is 4 microseconds, a microsecond 4 nanoseconds,  *)
(* and 7 bits hold milliseconds as nanoseconds, but not microseconds that  *)
(* were taken for milliseconds.                                            *)
(* OrderBook: the two books that show a mixed-up id, and three prices, so  *)
(* that an insertion has a place before, between and after others.         *)
(*                                                                         *)
(* A frame ends when it is read and time at MaxTime: no deadlock is looked *)
(* for.                                                                    *)
(***************************************************************************)
EXTENDS SbeCodec, ScaledBook, OrderBook

VARIABLE part

allVars == <<vars, scaledVars, orderVars, part>>

Level1 == <<7, 5>>
Level2 == <<8, 0>>

SideOf(n) == SubSeq(<<Level1, Level2>>, 1, n)

Message(c, r, counts, text, rootExtra, levelExtra) ==
    [codec |-> c, root |-> r,
     levels |-> [g \in 1 .. Len(Encoder[c].groups) |-> SideOf(counts[g])],
     symbol |-> IF Encoder[c].hasSymbol THEN text ELSE <<>>,
     rootExtra |-> rootExtra, levelExtra |-> levelExtra]

MCNullPrice == -1

(* Every field of a root block gets a value of its own.                    *)
Roots(c) ==
    CASE c = "diff" ->
            {[eventTime |-> 1, firstBookUpdateId |-> 2, lastBookUpdateId |-> 3,
              priceExponent |-> 4, qtyExponent |-> 5]}
      [] c = "snapshot" ->
            {[eventTime |-> 1, bookUpdateId |-> 2, priceExponent |-> 3, qtyExponent |-> 4]}
      [] c = "response" ->
            {[lastUpdateId |-> 1, priceExponent |-> 2, qtyExponent |-> 3]}
      [] c = "ticker" ->
            {[priceExponent |-> 1, qtyExponent |-> 2, bidPrice |-> p, bidQty |-> 4,
              askPrice |-> 5, askQty |-> 6] : p \in {3, MCNullPrice}}

Counts == {<<0, 0>>, <<0, 2>>, <<1, 1>>, <<2, 0>>, <<2, 1>>}

MCMessages ==
    UNION {{Message(c, r, counts, text, rootExtra, levelExtra) :
               r \in Roots(c), counts \in Counts, text \in {<<>>, <<66, 84>>},
               rootExtra \in {0, 3, 73}, levelExtra \in {0, 1}} : c \in Codecs}

MCVenuePrices == {50, 60, 120, 800}
MCVenueSizes  == {0, 1, 15, 90}
MCPriceExp    == -2
MCQtyExp      == -1

(* A part that stands still does so in one of its initial states.          *)
MCInit ==
    /\ part \in {"frame", "scaling", "columns"}
    /\ Init /\ (part # "frame" => msg = CHOOSE m \in Messages : TRUE)
    /\ ScaledInit
    /\ part # "scaling" => exchange = "bybit" /\ venue = [p \in VenuePrices |-> 0]
    /\ OrderInit

MCNext ==
    \/ part = "frame" /\ Next /\ UNCHANGED <<scaledVars, orderVars, part>>
    \/ part = "scaling" /\ ScaledNext /\ UNCHANGED <<vars, orderVars, part>>
    \/ part = "columns" /\ OrderNext /\ UNCHANGED <<vars, scaledVars, part>>

MCSpec == MCInit /\ [][MCNext]_allVars

(* The scaling alone: what its stamps are documented to be.                *)
ScalingSpec == MCInit /\ part = "scaling" /\ [][MCNext]_allVars
=============================================================================
