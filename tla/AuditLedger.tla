---------------------------- MODULE AuditLedger ----------------------------
(***************************************************************************)
(* What a hash-chained audit log promises to its readers: one sequence of  *)
(* entries to which transactions append, and which nothing ever rewrites.  *)
(* A published root hash stays an ancestor of every later one.             *)
(***************************************************************************)
EXTENDS Naturals, Sequences

CONSTANT Content

VARIABLE ledger

Init == ledger = <<>>

Extends(old, new) == Len(old) <= Len(new) /\ SubSeq(new, 1, Len(old)) = old

\* A transaction commits one or more entries.
Publish == ledger' \in Seq(Content) /\ Extends(ledger, ledger') /\ ledger' # ledger

Spec == Init /\ [][Publish]_ledger

=============================================================================
