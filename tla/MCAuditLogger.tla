--------------------------- MODULE MCAuditLogger ----------------------------
(* AuditLogger on a small instance: more events than two batches hold.      *)
EXTENDS AuditLogger
=============================================================================
