------------------------ MODULE MCPolymarketCollector -----------------------
(***************************************************************************)
(* The collector for TLC, on a shrunken clock.  At MaxTime the run is over;*)
(* before it, time or a task always goes on: the check for deadlock is on. *)
(***************************************************************************)
EXTENDS PolymarketCollector

Over == now = MaxTime /\ UNCHANGED vars

MCSpec == Init /\ [][Next \/ Over]_vars
=============================================================================
