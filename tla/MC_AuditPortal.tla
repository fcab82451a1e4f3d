--------------------------- MODULE MC_AuditPortal ---------------------------
(* One retirement and one claim. *)
EXTENDS AuditPortal
=============================================================================
