----------------------------- MODULE MCAuditLog -----------------------------
(***************************************************************************)
(* AuditLog with entries that match everything or nothing one can ask for. *)
(***************************************************************************)
EXTENDS AuditLog

MCEntries == {[action |-> "block_user", text |-> "alice"], [action |-> None, text |-> None]}
=============================================================================
