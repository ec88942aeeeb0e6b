---------------------------- MODULE MCSupervisor ----------------------------
(***************************************************************************)
(* The process for TLC: the connector, the ticker, and two further workers.*)
(***************************************************************************)
EXTENDS Supervisor

MCWorkers == {"indexer", "ingestion"}
=============================================================================
