---------------------------- MODULE MCAuditChain ----------------------------
(* TLC instances of the audit chain. *)
EXTENDS AuditChain
=============================================================================
