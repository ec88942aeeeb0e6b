------------------------------ MODULE OrderBook -----------------------------
(***************************************************************************)
(* OrderBookIndexer: an id per known symbol, and per id two columns, the   *)
(* prices of a side with the best in front and the sizes beside them.      *)
(* Every update finds its place by binary search, which is only right on a *)
(* column that is in order; every update has to leave it so.               *)
(***************************************************************************)
EXTENDS BookLevels, SequencesExt

CONSTANTS
    Keys,           \* the symbol keys that events may carry
    Ids,            \* the keys a slot map hands out
    Depths          \* the depths it may be truncated to

VARIABLES
    id_resolver,    \* the id of each known symbol key
    bids,           \* bids and asks: per id, the columns of that side
    asks

orderVars == <<id_resolver, bids, asks>>

ASSUME DepthAssumption == Depths \subseteq Nat

EmptyColumn == [prices |-> <<>>, sizes |-> <<>>]
Columns == [prices : Seq(Prices), sizes : Seq(Sizes)]

OrderInit ==
    /\ id_resolver = <<>>
    /\ bids = <<>>
    /\ asks = <<>>

-----------------------------------------------------------------------------
(* Faulty variant: both sides lowest price first.                          *)
Before_Ascending(side, p, q) == p < q

(* The comparators of the two searches.                                    *)
Before(side, p, q) == IF side = "bid" THEN p > q ELSE p < q

(* slice::binary_search_by: Ok(i) with the price at i, or Err(i) with the  *)
(* place where it has to go.                                               *)
FoundAt(c, p, i) == i \in DOMAIN c.prices /\ c.prices[i] = p

FitsAt(c, side, p, i) ==
    /\ i \in 1 .. Len(c.prices) + 1
    /\ \A j \in DOMAIN c.prices : IF j < i THEN Before(side, c.prices[j], p)
                                           ELSE Before(side, p, c.prices[j])

RemoveLevel(c, i) == [prices |-> RemoveAt(c.prices, i), sizes |-> RemoveAt(c.sizes, i)]
ResizeLevel(c, i, s) == [c EXCEPT !.sizes[i] = s]
InsertLevel(c, i, p, s) ==
    [prices |-> InsertAt(c.prices, i, p), sizes |-> InsertAt(c.sizes, i, s)]

(* What appy_book_update may make of column c for price p and size s, by   *)
(* whatever index the search returns.  In a column that is in order there  *)
(* is exactly one.                                                         *)
Updates(c, side, p, s) ==
    {IF s = 0 THEN RemoveLevel(c, i) ELSE ResizeLevel(c, i, s) :
        i \in {j \in DOMAIN c.prices : FoundAt(c, p, j)}}
    \cup
    {IF s > 0 THEN InsertLevel(c, i, p, s) ELSE c :
        i \in {j \in 1 .. Len(c.prices) + 1 : FitsAt(c, side, p, j)}}

(* Vec::truncate on both columns.                                          *)
CutTo(q, d) == SubSeq(q, 1, IF Len(q) <= d THEN Len(q) ELSE d)
Truncated(c, d) == [prices |-> CutTo(c.prices, d), sizes |-> CutTo(c.sizes, d)]

-----------------------------------------------------------------------------
Extend(f, x, y) == [z \in DOMAIN f \cup {x} |-> IF z = x THEN y ELSE f[z]]

(* new_book for a key not seen before: a fresh id with empty columns.  A   *)
(* known key gets the id it has, and nothing changes.                      *)
NewBook(k) ==
    /\ k \notin DOMAIN id_resolver
    /\ \E id \in Ids \ DOMAIN bids :
        /\ id_resolver' = Extend(id_resolver, k, id)
        /\ bids' = Extend(bids, id, EmptyColumn)
        /\ asks' = Extend(asks, id, EmptyColumn)

ClearBook(id) ==
    /\ bids' = [bids EXCEPT ![id] = EmptyColumn]
    /\ asks' = [asks EXCEPT ![id] = EmptyColumn]
    /\ UNCHANGED id_resolver

UpdateBook(id, side, p, s) ==
    /\ IF side = "bid"
       THEN /\ \E c \in Updates(bids[id], side, p, s) : bids' = [bids EXCEPT ![id] = c]
            /\ UNCHANGED asks
       ELSE /\ \E c \in Updates(asks[id], side, p, s) : asks' = [asks EXCEPT ![id] = c]
            /\ UNCHANGED bids
    /\ UNCHANGED id_resolver

(* Faulty variant: only the bids are cut.                                  *)
TruncateBookDepth_BidsOnly(id, d) ==
    /\ bids' = [bids EXCEPT ![id] = Truncated(@, d)]
    /\ UNCHANGED <<id_resolver, asks>>

TruncateBookDepth(id, d) ==
    /\ bids' = [bids EXCEPT ![id] = Truncated(@, d)]
    /\ asks' = [asks EXCEPT ![id] = Truncated(@, d)]
    /\ UNCHANGED id_resolver

(* With an id that has no columns the functions return at once.            *)
OrderNext ==
    \/ \E k \in Keys : NewBook(k)
    \/ \E id \in DOMAIN bids :
        \/ ClearBook(id)
        \/ \E side \in Sides, p \in Prices, s \in Sizes : UpdateBook(id, side, p, s)
        \/ \E d \in Depths : TruncateBookDepth(id, d)

OrderSpec == OrderInit /\ [][OrderNext]_orderVars

-----------------------------------------------------------------------------
(* Ids and columns belong together: a key has its own id, every id a key   *)
(* and both columns.                                                       *)
OrderTypeOK ==
    /\ DOMAIN id_resolver \subseteq Keys
    /\ id_resolver \in [DOMAIN id_resolver -> Ids]
    /\ \A j, k \in DOMAIN id_resolver : id_resolver[j] = id_resolver[k] => j = k
    /\ DOMAIN bids = {id_resolver[k] : k \in DOMAIN id_resolver}
    /\ bids \in [DOMAIN bids -> Columns]
    /\ asks \in [DOMAIN bids -> Columns]

(* A column is in order: the best price in front, no price twice, a size   *)
(* that is not 0 for each.  What binary search, `first` and `take` need.   *)
InOrder(side, c) ==
    /\ Len(c.sizes) = Len(c.prices)
    /\ \A i, j \in DOMAIN c.prices : i < j => Better(<<side, c.prices[i]>>, <<side, c.prices[j]>>)
    /\ \A i \in DOMAIN c.sizes : c.sizes[i] > 0

(* appy_book_update, truncate_book_depth and clear_book keep every column  *)
(* of every book in order, through any sequence of them.                   *)
ColumnsInOrder ==
    \A id \in DOMAIN bids : InOrder("bid", bids[id]) /\ InOrder("ask", asks[id])

(* The level sizes the columns stand for.                                  *)
SizeIn(c, p) == IF \E i \in DOMAIN c.prices : c.prices[i] = p
                THEN c.sizes[CHOOSE i \in DOMAIN c.prices : c.prices[i] = p]
                ELSE 0

LevelsOf(k) ==
    IF k \in DOMAIN id_resolver
    THEN [l \in Levels |-> SizeIn(IF l[1] = "bid" THEN bids[id_resolver[k]]
                                                  ELSE asks[id_resolver[k]], l[2])]
    ELSE EmptyBook

(* The columns do what PriceLevels promises of books: an update touches    *)
(* its own level of its own symbol only, and cutting the vectors keeps     *)
(* exactly the best levels.                                                *)
Abstract == INSTANCE PriceLevels WITH levels <- [k \in Keys |-> LevelsOf(k)]
ImplementsPriceLevels == Abstract!Spec
=============================================================================
