---------------------------- MODULE BinanceSync -----------------------------
(***************************************************************************)
(* The sequence bookkeeping of the Binance adapter, one state per symbol   *)
(* under the sync_state mutex.  After a REST snapshot S the adapter waits  *)
(* for the first diff (U..u) that bridges S, i.e. U <= S+1 <= u; after it  *)
(* every newer diff is passed on, with prev_seq_id telling the indexer     *)
(* whether it continues the previous one.                                  *)
(***************************************************************************)
EXTENDS Naturals

NoState == [mode |-> "None", id |-> 0]
AwaitingBridge(s) == [mode |-> "AwaitingBridge", id |-> s]
Synced(u)         == [mode |-> "Synced", id |-> u]

SyncStates == [mode : {"None", "AwaitingBridge", "Synced"}, id : Nat]

(* Faulty variant: a symbol in sequence keeps its state.                   *)
SetSnapshotState_KeepSynced(st, s) == IF st.mode = "Synced" THEN st ELSE AwaitingBridge(s)

(* set_snapshot_state: whatever the state was, a snapshot restarts it.     *)
SetSnapshotState(st, s) == AwaitingBridge(s)

Dropped(st)          == [state |-> st, emit |-> FALSE, seq_id |-> 0, prev_seq_id |-> 0]
Emitted(hi, prev)    == [state |-> Synced(hi), emit |-> TRUE, seq_id |-> hi, prev_seq_id |-> prev]

(* Faulty variants: a diff beyond the next expected one passes as its      *)
(* continuation; a diff beyond the bridge is passed on with the gap marked.*)
ResolveDiff_NoGap(st, lo, hi) ==
    IF st.mode = "None" \/ hi <= st.id THEN Dropped(st)
    ELSE IF st.mode = "AwaitingBridge" /\ lo > st.id + 1 THEN Dropped(st)
    ELSE Emitted(hi, st.id)

ResolveDiff_BeyondBridge(st, lo, hi) ==
    IF st.mode = "None" \/ hi <= st.id THEN Dropped(st)
    ELSE IF lo <= st.id + 1 THEN Emitted(hi, st.id) ELSE Emitted(hi, lo - 1)

(* resolve_diff_sequence for the diff lo..hi in state st: the new state and*)
(* what the event will carry, if there is one.                             *)
ResolveDiff(st, lo, hi) ==
    CASE st.mode = "None" \/ hi <= st.id -> Dropped(st)
      [] st.mode = "AwaitingBridge" /\ hi > st.id ->
            IF lo <= st.id + 1 THEN Emitted(hi, st.id) ELSE Dropped(st)
      [] st.mode = "Synced" /\ hi > st.id ->
            IF lo <= st.id + 1 THEN Emitted(hi, st.id) ELSE Emitted(hi, lo - 1)
=============================================================================
