------------------------------- MODULE Shipper -------------------------------
(***************************************************************************)
(* Forwarding the journal to a SIEM, src/src/audit/forward/mod.rs: a reader *)
(* of the journal file that delivers batches to a receiver and persists a   *)
(* cursor after each acknowledged batch.  The journal it reads is the audit *)
(* log of AuditLog; the receiver is external, known by what deliver()       *)
(* returns.                                                                 *)
(*                                                                         *)
(* The cursor is a sequence number and a byte offset.  Lines have a size,   *)
(* so an offset may fall inside a line of a file other than the one it was  *)
(* taken from.                                                              *)
(***************************************************************************)
EXTENDS AuditLog, FiniteSets

CONSTANTS Batch,         \* records per delivery
          Long           \* the contents whose line takes two units, not one

ASSUME ShipperConstants == Batch \in Nat \ {0}

VARIABLES
  pc,        \* "down", "ready", "deliver", "persist", "wait"
  cursor,    \* the running shipper's cursor: acknowledged and offset
  saved,     \* the cursor file
  inflight,  \* the batch read and not yet acknowledged
  received,  \* what the receiver has ever been handed: <<sequence, content>>
  degraded,  \* ForwardHealth: the failure category, or "none"
  lost       \* history: a power loss has taken lines from the file

shipVars == <<pc, cursor, saved, inflight, received, degraded>>
forwardVars == <<logVars, shipVars, lost>>

-----------------------------------------------------------------------------
\* Bytes of the first n lines.
Offset(f, n) == n + Cardinality({i \in 1..n : f[i] \in Long})

FreshCursor == [ack |-> 0, off |-> 0]

Nothing == [lines |-> <<>>, after |-> FreshCursor]

\* JournalReader::resume and the first read: the file reaches the offset, a
\* line starts there, and it carries the next number.  At the end of the file
\* nothing is read, so nothing is found wrong.
Readable(f, c) ==
  \E n \in 0..Len(f) : Offset(f, n) = c.off /\ (n = Len(f) \/ n = c.ack)

\* Mutants of the batch read below: its last line is dropped; a batch that is not
\* full waits.
ReadDropsLast(f, c) ==
  LET n == CHOOSE n \in 0..Len(f) : Offset(f, n) = c.off
      last == IF n + Batch < Len(f) THEN n + Batch ELSE Len(f)
  IN [lines |-> [i \in 1..(IF last - n = Batch THEN Batch - 1 ELSE last - n)
                   |-> <<n + i, f[n + i]>>],
      after |-> [ack |-> c.ack + (last - n), off |-> Offset(f, last)]]

ReadWaitsForFull(f, c) ==
  LET n == CHOOSE n \in 0..Len(f) : Offset(f, n) = c.off
      last == IF n + Batch <= Len(f) THEN n + Batch ELSE n
  IN [lines |-> [i \in 1..last - n |-> <<n + i, f[n + i]>>],
      after |-> [ack |-> c.ack + (last - n), off |-> Offset(f, last)]]

\* read_batch: at most Batch lines from the cursor on, and where that ends.
ReadFrom(f, c) ==
  LET n == CHOOSE n \in 0..Len(f) : Offset(f, n) = c.off
      last == IF n + Batch < Len(f) THEN n + Batch ELSE Len(f)
  IN [lines |-> [i \in 1..last - n |-> <<n + i, f[n + i]>>],
      after |-> [ack |-> c.ack + (last - n), off |-> Offset(f, last)]]

ShipInit ==
  /\ LogInit
  /\ pc = "down"
  /\ cursor = FreshCursor
  /\ saved = FreshCursor
  /\ inflight = Nothing
  /\ received = {}
  /\ degraded = "none"
  /\ lost = FALSE

\* Shipper::open: load_cursor.
Start ==
  /\ pc = "down"
  /\ pc' = "ready"
  /\ cursor' = saved
  /\ degraded' = "none"
  /\ UNCHANGED <<saved, inflight, received>>

\* The round ends without an error: nothing (more) to forward.
RoundDone ==
  /\ pc' = "wait"
  /\ degraded' = "none"

\* The round ends with an error: the same batch is read again after a backoff.
RoundFails(category) ==
  /\ pc' = "wait"
  /\ degraded' = category
  /\ inflight' = Nothing

ReadNothing ==
  /\ pc = "ready"
  /\ Readable(log, cursor)
  /\ ReadFrom(log, cursor).lines = <<>>
  /\ RoundDone
  /\ UNCHANGED <<cursor, saved, inflight, received>>

\* Mutant: the cursor is saved when the batch is read.
ReadAndPersist ==
  /\ pc = "ready"
  /\ Readable(log, cursor)
  /\ ReadFrom(log, cursor).lines # <<>>
  /\ inflight' = ReadFrom(log, cursor)
  /\ saved' = inflight'.after
  /\ pc' = "deliver"
  /\ UNCHANGED <<cursor, received, degraded>>

ReadBatch ==
  /\ pc = "ready"
  /\ Readable(log, cursor)
  /\ ReadFrom(log, cursor).lines # <<>>
  /\ inflight' = ReadFrom(log, cursor)
  /\ pc' = "deliver"
  /\ UNCHANGED <<cursor, saved, received, degraded>>

ReadFails ==
  /\ pc = "ready"
  /\ ~Readable(log, cursor)
  /\ RoundFails("journal_unreadable")
  /\ UNCHANGED <<cursor, saved, received>>

Arrives(n) ==
  received' = received \cup {inflight.lines[i] : i \in 1..n}

DeliverOk ==
  /\ pc = "deliver"
  /\ Arrives(Len(inflight.lines))
  /\ pc' = "persist"
  /\ UNCHANGED <<cursor, saved, inflight, degraded>>

\* The receiver refuses, or its acknowledgement is lost: any number of the
\* batch's records may have arrived.
DeliverFails ==
  /\ pc = "deliver"
  /\ \E n \in 0..Len(inflight.lines) : Arrives(n)
  /\ RoundFails("deliver")
  /\ UNCHANGED <<cursor, saved>>

\* write_cursor, then the cursor in memory; drain reads on unless caught up.
Persist ==
  /\ pc = "persist"
  /\ saved' = inflight.after
  /\ cursor' = inflight.after
  /\ inflight' = Nothing
  /\ IF Len(inflight.lines) = Batch
     THEN pc' = "ready" /\ UNCHANGED degraded
     ELSE RoundDone
  /\ UNCHANGED received

PersistFails ==
  /\ pc = "persist"
  /\ RoundFails("cursor_unwritable")
  /\ UNCHANGED <<cursor, saved, received>>

\* The interval, or the backoff, has passed.
Wake ==
  /\ pc = "wait"
  /\ pc' = "ready"
  /\ UNCHANGED <<cursor, saved, inflight, received, degraded>>

\* The process stops, cancelled between rounds or killed anywhere.
Stop ==
  /\ pc # "down"
  /\ pc' = "down"
  /\ inflight' = Nothing
  /\ cursor' = FreshCursor
  /\ UNCHANGED <<saved, received, degraded>>

\* The host loses power: the log may lose its undurable tail, and every
\* process is gone.
PowerLoss ==
  /\ \E n \in durable..Len(log) : Lose(n, {})
  /\ lost' = (lost \/ Len(log') < Len(log))
  /\ pc' = "down"
  /\ inflight' = Nothing
  /\ cursor' = FreshCursor
  /\ UNCHANGED <<saved, received, degraded>>

-----------------------------------------------------------------------------
Ship ==
  \/ Start \/ ReadNothing \/ ReadBatch \/ ReadFails \/ DeliverOk \/ DeliverFails
  \/ Persist \/ PersistFails \/ Wake

\* The journal's writer: records and checkpoints, synced after they are written.
Written ==
  \/ \E c \in Records \cup Others :
       /\ Len(log) < MaxLog
       /\ c \in Records => \A i \in 1..Len(log) : log[i] # c
       /\ c \in Others => log # <<>>
       /\ Extend(<<c>>, {}, "lost")
  \/ durable < Len(log) /\ Commit({})

ShipNext ==
  \/ (Ship \/ Stop) /\ UNCHANGED <<logVars, lost>>
  \/ Written /\ UNCHANGED <<shipVars, lost>>
  \/ PowerLoss

ShipSpec == ShipInit /\ [][ShipNext]_forwardVars

\* The shipper's task keeps running and the process is restarted; the receiver
\* and the cursor's disk answer again and again, and the process lives long
\* enough, again and again, to read and finish a batch.
ShipFairSpec ==
  /\ ShipSpec
  /\ WF_forwardVars(Ship /\ UNCHANGED <<logVars, lost>>)
  /\ SF_forwardVars(ReadBatch /\ UNCHANGED <<logVars, lost>>)
  /\ SF_forwardVars(DeliverOk /\ UNCHANGED <<logVars, lost>>)
  /\ SF_forwardVars(Persist /\ UNCHANGED <<logVars, lost>>)

-----------------------------------------------------------------------------
Cursors == [ack : Nat, off : Nat]

(* Types of the shipper's state.                                            *)
ShipTypeOK ==
  /\ pc \in {"down", "ready", "deliver", "persist", "wait"}
  /\ cursor \in Cursors /\ saved \in Cursors
  /\ inflight.after \in Cursors
  /\ \A i \in 1..Len(inflight.lines) : inflight.lines[i] \in Nat \X (Records \cup Others)
  /\ received \subseteq Nat \X (Records \cup Others)
  /\ degraded \in {"none", "journal_unreadable", "deliver", "cursor_unwritable"}

(* A record is never skipped (the doc of the cursor): every durable line    *)
(* the cursor file has moved past is at the receiver.                       *)
NoneSkipped ==
  \A n \in 1..durable : n <= saved.ack => <<n, log[n]>> \in received

(* Until a power loss takes lines from the file, crashes between delivery   *)
(* and cursor, failed deliveries of part of a batch and failed cursor       *)
(* writes only repeat records: none is skipped, and the receiver holds the  *)
(* journal's own lines, so that the number is a key to remove duplicates    *)
(* by.  Even after one, the cursor is never ahead of an acknowledgement.    *)
DeliveredFaithfully ==
  /\ lost \/ NoneSkipped
  /\ lost \/ \A m \in received : m[1] \in 1..Len(log) /\ log[m[1]] = m[2]
  /\ \A n \in 1..saved.ack : \E m \in received : m[1] = n

(* Every durable line reaches the receiver, over any number of failed       *)
(* deliveries, failed cursor writes and restarts, unless a power loss takes *)
(* lines from the file.                                                     *)
EverythingForwarded ==
  \A n \in 1..MaxLog :
    durable >= n ~> lost \/ (n <= Len(log) /\ <<n, log[n]>> \in received)

=============================================================================
