------------------------------- MODULE Stamps --------------------------------
(***************************************************************************)
(* The times of events and the stamps of rows.  A row's stamp counts       *)
(* nanoseconds.  What an exchange calls the time of an event counts        *)
(* milliseconds or microseconds, and the code does not ask which.          *)
(***************************************************************************)
EXTENDS Integers

CONSTANTS
    MaxInt64,       \* i64::MAX
    Kilo            \* 1_000: microseconds of a millisecond, and so on

ASSUME StampAssumption == MaxInt64 \in Nat /\ Kilo \in Nat \ {0}

(* A moment in milliseconds, in nanoseconds.                               *)
Nanos(t) == t * Kilo * Kilo

(* The timestamp of a frame of exchange x, sent at millisecond t: Bybit    *)
(* counts milliseconds, Binance microseconds (as the sender in             *)
(* build_diff_event_frame does).                                           *)
EventTime(x, t) == IF x = "binance" THEN t * Kilo ELSE t

(* i64 in a release build: a product that leaves it wraps.                 *)
Wrapped(n) == ((n + MaxInt64 + 1) % (2 * (MaxInt64 + 1))) - (MaxInt64 + 1)

(* emit_ticks and emit_snapshots take any timestamp for milliseconds.      *)
TickStamp(ts)     == Wrapped(Nanos(ts))
SnapshotStamp(ts) == IF Nanos(ts) > MaxInt64 THEN MaxInt64 ELSE Nanos(ts)
=============================================================================
