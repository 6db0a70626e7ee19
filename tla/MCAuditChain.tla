---------------------------- MODULE MCAuditChain -----------------------------
(***************************************************************************)
(* AuditChain on a small instance: every event may find two others on its  *)
(* way, and any of the clocks may be behind.                               *)
(***************************************************************************)
EXTENDS AuditChain
=============================================================================
