---------------------------- MODULE MCAuditClient ---------------------------
(***************************************************************************)
(* Instances of AuditClient: buffers that the ticker flushes, that are     *)
(* full, and that outgrow FlushAt because there is no connection.          *)
(***************************************************************************)
EXTENDS AuditClient
=============================================================================
