----------------------------- MODULE BookLevels -----------------------------
(***************************************************************************)
(* A book as a function: the size of each level, a level being a side and  *)
(* a price.  Size 0 means that the level is absent, as it does in the      *)
(* messages of the exchanges and in appy_book_update.                      *)
(***************************************************************************)
EXTENDS Integers, FiniteSets

CONSTANTS
    Prices,         \* the prices of the model, integers
    Sizes           \* the sizes of the model, 0 among them

ASSUME PricesAssumption == Prices \subseteq Int /\ IsFiniteSet(Prices)
ASSUME SizesAssumption  == Sizes \subseteq Nat /\ 0 \in Sizes

Sides  == {"bid", "ask"}
Levels == Sides \X Prices
Books  == [Levels -> Sizes]

(* clear_book.                                                             *)
EmptyBook == [l \in Levels |-> 0]

(* Order within a side: the highest bid and the lowest ask are the best.   *)
Better(l, m) == /\ l[1] = m[1]
                /\ IF l[1] = "bid" THEN l[2] > m[2] ELSE l[2] < m[2]

(* The best `depth` levels of each side of b: Vec::truncate on the sorted  *)
(* columns, and the `take(depth)` of what is published.                    *)
TopOf(b, depth) ==
    [l \in Levels |->
        IF Cardinality({m \in Levels : b[m] > 0 /\ Better(m, l)}) < depth
        THEN b[l] ELSE 0]

(* apply_side_updates on both sides: a level of p replaces the size in b,  *)
(* size 0 removes the level.                                               *)
ApplyLevels(b, p) == [l \in Levels |-> IF l \in DOMAIN p THEN p[l] ELSE b[l]]
=============================================================================
