----------------------------- MODULE LevelScaling ----------------------------
(***************************************************************************)
(* From a venue's decimals to the integers of the book, and back to the    *)
(* decimals of a row.  A decimal is a fraction <<n, d>>, d > 0; the book   *)
(* keeps prices in u32 and sizes in u64, in ticks of 1/PriceScale and      *)
(* 1/QtyScale.  A number that does not fit is no level.                    *)
(***************************************************************************)
EXTENDS Stamps

CONSTANTS
    PriceScale,     \* DEFAULT_PRICE_SCALE, 10_000
    QtyScale,       \* DEFAULT_QTY_SCALE, 1_000_000
    MaxPrice,       \* u32::MAX
    MaxSize         \* u64::MAX

ASSUME ScalingAssumption ==
    /\ PriceScale \in Nat \ {0} /\ QtyScale \in Nat \ {0}
    /\ MaxPrice \in Nat /\ MaxSize \in Nat

-----------------------------------------------------------------------------
(* Decimal::round: to the nearest integer, a tie to the even one.          *)
Round(n, d) ==
    LET q == n \div d
        r == n % d
    IN  IF 2 * r > d \/ (2 * r = d /\ q % 2 = 1) THEN q + 1 ELSE q

(* decimal_from_mantissa: raw * 10^exponent, None (<<>>) when raw is       *)
(* negative or the power leaves i64.                                       *)
FromMantissa(raw, exponent) ==
    CASE raw < 0                                        -> <<>>
      [] raw >= 0 /\ exponent < 0                        -> <<raw, 10 ^ (-exponent)>>
      [] raw >= 0 /\ exponent >= 0 /\ 10 ^ exponent > MaxInt64  -> <<>>
      [] raw >= 0 /\ exponent >= 0 /\ 10 ^ exponent <= MaxInt64 -> <<raw * 10 ^ exponent, 1>>

NoLevel == [price |-> -1, size |-> -1]

(* The scaling that both adapters' parse_level and parse_rest_levels do.   *)
ToLevel(price, qty) ==
    LET p == Round(price[1] * PriceScale, price[2])
        q == Round(qty[1] * QtyScale, qty[2])
    IN  IF p \in 0 .. MaxPrice /\ q \in 0 .. MaxSize
        THEN [price |-> p, size |-> q] ELSE NoLevel

(* Faulty variant: the exponents of price and quantity changed places.     *)
ParseLevel_Swapped(price, qty, priceExp, qtyExp) ==
    LET p == FromMantissa(price, qtyExp)
        q == FromMantissa(qty, priceExp)
    IN  IF p = <<>> \/ q = <<>> THEN NoLevel ELSE ToLevel(p, q)

(* The Binance adapter's parse_level.                                      *)
ParseLevel(price, qty, priceExp, qtyExp) ==
    LET p == FromMantissa(price, priceExp)
        q == FromMantissa(qty, qtyExp)
    IN  IF p = <<>> \/ q = <<>> THEN NoLevel ELSE ToLevel(p, q)

-----------------------------------------------------------------------------
(* Faulty variant: the scale is the one of sizes.                          *)
DecimalFromPrice_Qty(price) == <<price, QtyScale>>

DecimalFromPrice(price) == <<price, PriceScale>>

DecimalFromSize(size) == <<size, QtyScale>>
=============================================================================
