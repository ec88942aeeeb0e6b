-------------------------- MODULE MCIngestionClient -------------------------
(***************************************************************************)
(* Instances of IngestionClient: enough rows for a full batch, a batch the *)
(* ticker ends, and one after a failure.                                   *)
(***************************************************************************)
EXTENDS IngestionClient
=============================================================================
