------------------------------ MODULE MCJournal ------------------------------
(* The audit journal on a small instance, with its offline verification, the *)
(* invariant of its proofs and the audit log it implements.                  *)
EXTENDS AuditVerify, JournalInv, JournalRefinement, TLC

Symmetry == Permutations(Records) \cup Permutations(Procs)
=============================================================================
