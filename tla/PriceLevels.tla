----------------------------- MODULE PriceLevels ----------------------------
(***************************************************************************)
(* What OrderBookIndexer promises to the worker above it: a book per key,  *)
(* whose levels are set one at a time, emptied, or cut to the best ones.   *)
(* IndexerWorker reasons about books in this form; OrderBook shows that    *)
(* the sorted columns of the code behave so.                               *)
(***************************************************************************)
EXTENDS BookLevels

CONSTANTS Keys, Depths

VARIABLE levels

Init == levels = [k \in Keys |-> EmptyBook]

Set(k, l, s)   == levels' = [levels EXCEPT ![k][l] = s]
Clear(k)       == levels' = [levels EXCEPT ![k] = EmptyBook]
Truncate(k, d) == levels' = [levels EXCEPT ![k] = TopOf(@, d)]

Next == \E k \in Keys : \/ \E l \in Levels, s \in Sizes : Set(k, l, s)
                        \/ Clear(k)
                        \/ \E d \in Depths : Truncate(k, d)

Spec == Init /\ [][Next]_levels
=============================================================================
