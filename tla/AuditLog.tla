------------------------------ MODULE AuditLog ------------------------------
(***************************************************************************)
(* What the audit journal promises to the rest of the server, the contract  *)
(* of AuditSink::append in src/src/ports/audit_sink.rs: a log that only     *)
(* grows, whose durable prefix never changes, and in which a record         *)
(* somebody was told is appended has its place in that prefix.  Journal is  *)
(* shown to implement it; the components that use the journal are modelled  *)
(* against it.                                                              *)
(***************************************************************************)
EXTENDS Integers, Sequences

CONSTANTS Records,   \* audit records, each submitted once
          Others,    \* what else a line may hold (a checkpoint)
          MaxLog     \* bound on the length of the log

ASSUME AuditLogConstants == Records \cap Others = {} /\ MaxLog \in Nat

VARIABLES log,      \* the lines as a reader of the file sees them
          durable,  \* how many of them survive a power loss
          answer,   \* what the submitter of each record was told
          place     \* the sequence number it was given

logVars == <<log, durable, answer, place>>

LogInit ==
  /\ log = <<>>
  /\ durable = 0
  /\ answer = [r \in Records |-> "idle"]
  /\ place = [r \in Records |-> 0]

\* append is called.
Submit(r) ==
  /\ answer[r] = "idle"
  /\ answer' = [answer EXCEPT ![r] = "waiting"]
  /\ UNCHANGED <<log, durable, place>>

\* The caller's bounded wait ends; the record may still be written.
GiveUp(r) ==
  /\ answer[r] = "waiting"
  /\ answer' = [answer EXCEPT ![r] = "abandoned"]
  /\ UNCHANGED <<log, durable, place>>

\* Some of the waiting callers get an answer that promises nothing: "failed"
\* from the journal, "lost" when the process is gone.
Unpromised(rs, outcome) ==
  answer' = [r \in Records |->
               IF r \in rs /\ answer[r] = "waiting" THEN outcome ELSE answer[r]]

\* Lines reach the file; callers may be refused in the same step.
Extend(lines, rs, outcome) ==
  /\ log' = log \o lines
  /\ Unpromised(rs, outcome)
  /\ UNCHANGED <<durable, place>>

\* Everything in the file becomes durable, and only then callers are told
\* where their records are.
Commit(rs) ==
  /\ durable' = Len(log)
  /\ \A r \in rs : answer[r] = "waiting" /\ \E i \in 1..Len(log) : log[i] = r
  /\ answer' = [r \in Records |-> IF r \in rs THEN "ok" ELSE answer[r]]
  /\ \E at \in [rs -> 1..Len(log)] :
       /\ \A r \in rs : log[at[r]] = r
       /\ place' = [r \in Records |-> IF r \in rs THEN at[r] ELSE place[r]]
  /\ UNCHANGED log

\* A power loss takes an undurable tail and the callers with it.
Lose(n, rs) ==
  /\ n \in durable..Len(log)
  /\ log' = SubSeq(log, 1, n)
  /\ Unpromised(rs, "lost")
  /\ UNCHANGED <<durable, place>>

LogNext ==
  \/ \E r \in Records : Submit(r) \/ GiveUp(r)
  \/ \E rs \in SUBSET Records :
       \/ \E k \in 0..MaxLog - Len(log) :
            \E lines \in [1..k -> Records \cup Others], outcome \in {"failed", "lost"} :
              Extend(lines, rs, outcome)
       \/ Commit(rs)
       \/ \E n \in durable..Len(log) : Lose(n, rs)

LogSpec == LogInit /\ [][LogNext]_logVars

=============================================================================
