---------------------------- MODULE MCAuditLog ----------------------------
(* Model-checking instance of AuditLog: sessions are interchangeable. *)
EXTENDS AuditLog, TLC

Symmetry == Permutations(Sessions) \cup Permutations(Content)

=============================================================================
