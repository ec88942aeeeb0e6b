--------------------------- MODULE MCCollectorWriter --------------------------
(* Small instance of CollectorWriter: two workers with three rows each, more *)
(* than the queue and a batch hold, and two failures.                        *)
EXTENDS CollectorWriter
=============================================================================
