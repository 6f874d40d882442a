-------------------------- MODULE JournalRefinement --------------------------
(* The journal implements the audit log: its lines without their framing,   *)
(* its synced prefix, and the answers of its callers.                       *)
EXTENDS Journal

Log == INSTANCE AuditLog WITH
         Others <- {Seal, Torn}, MaxLog <- SeqMax,
         log <- [i \in 1..Len(file) |-> file[i].id],
         durable <- synced, answer <- req, place <- ackSeq

(* Every step of the journal, faults included, is a step of the audit log   *)
(* or leaves it alone: callers are answered "ok" only by the step that      *)
(* makes their record durable.                                              *)
ImplementsAuditLog == Log!LogSpec

=============================================================================
