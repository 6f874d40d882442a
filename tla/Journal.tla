------------------------------- MODULE Journal -------------------------------
(***************************************************************************)
(* The audit journal, src/src/audit/journal.rs: an append-only file of      *)
(* numbered lines, written by one dedicated writer thread per process.      *)
(*                                                                         *)
(* Callers hand records to the thread over a bounded channel and wait for   *)
(* an acknowledgement; the thread folds what is queued into one batch, one  *)
(* write_all and one sync_data, numbers the lines in write order, chains a  *)
(* hash over them, and seals the journal with a checkpoint every            *)
(* EveryRecords records, on a ticker's prompt, and on a clean close.        *)
(*                                                                         *)
(* The file is modelled at the level the guarantees are about: complete     *)
(* lines, whether a partial line trails them, and how many of the lines a   *)
(* successful sync covers.  A process may be killed at any step and the     *)
(* host may lose power at any step: a kill keeps what was written, a power  *)
(* loss keeps any prefix that contains the synced lines.  Processes (the    *)
(* old server of a restart and its successor) compete for the file lock.    *)
(***************************************************************************)
EXTENDS Integers, Sequences, FiniteSets

CONSTANTS Records,       \* audit records, each handed to the journal once
          Procs,         \* server processes sharing the journal directory
          NoProc,        \* the lock is free
          Tick,          \* the ticker's message in the writer's queue
          Seal,          \* what a checkpoint line holds in place of a record
          Torn,          \* what a line glued onto a torn write holds
          MaxBatch,      \* MAX_BATCH
          QueueDepth,    \* WRITE_QUEUE_DEPTH
          EveryRecords,  \* CheckpointPolicy::every_records
          SeqMax         \* u64::MAX

ASSUME JournalConstants ==
  /\ NoProc \notin Procs
  /\ Tick \notin Records
  /\ Seal \notin Records
  /\ Torn \notin Records
  /\ Seal # Torn
  /\ MaxBatch \in Nat \ {0}
  /\ QueueDepth \in Nat \ {0}
  /\ EveryRecords \in Nat \ {0}
  /\ SeqMax \in Nat \ {0}

VARIABLES
  file,      \* complete lines in the journal file, as a reader sees them
  torn,      \* a partial line follows them
  synced,    \* how many of the lines are on stable storage
  holder,    \* which process holds the exclusive file lock
  writer,    \* per process: its sink, its queue and its writer thread
  req,       \* per record: what its caller has been told
  ackSeq,    \* per record: the sequence number its caller was given
  exports    \* checkpoint lines copied to the checkpoint sink

vars == <<file, torn, synced, holder, writer, req, ackSeq, exports>>

-----------------------------------------------------------------------------
(* Lines.  A line is its sequence number and its content; Digest is what    *)
(* the hash chain tells apart.                                              *)

RecordLine(n, r) ==
  [seq |-> n, id |-> r, from |-> 0, prev |-> 0, chain |-> <<>>]

\* A record appended right behind a torn write shares its line.
Garbled == [seq |-> 0, id |-> Torn, from |-> 0, prev |-> 0, chain |-> <<>>]

Digest(line) == <<line.seq, line.id>>

\* Chain::extend over every line of f, from Chain::genesis.
ChainOf(f) == [i \in 1..Len(f) |-> Digest(f[i])]

\* Checkpoint::new over the writer's state; 0 stands for no checkpoint yet.
CheckpointLine(w) ==
  [seq |-> w.lastSeq + 1, id |-> Seal, from |-> w.lastCp + 1,
   prev |-> w.lastCp, chain |-> w.chain]

\* Appending lines to a file whose last write was torn or not.
Appended(f, t, lines) ==
  IF t /\ lines # <<>> THEN f \o <<Garbled>> \o Tail(lines) ELSE f \o lines

\* The lines the writer builds for a batch, numbered from lastSeq + 1.
BatchLines(w) ==
  [i \in 1..Len(w.batch) |-> RecordLine(w.lastSeq + i, w.batch[i])]

-----------------------------------------------------------------------------
(* A process: its sink and its writer thread.                               *)

\* No server running.
Down ==
  [pc |-> "down", open |-> FALSE, sealing |-> FALSE, poisoned |-> FALSE,
   queue |-> <<>>, batch |-> <<>>, lastSeq |-> 0, chain |-> <<>>,
   lastCp |-> 0, since |-> 0]

Init ==
  /\ file = <<>>
  /\ torn = FALSE
  /\ synced = 0
  /\ holder = NoProc
  /\ writer = [p \in Procs |-> Down]
  /\ req = [r \in Records |-> "idle"]
  /\ ackSeq = [r \in Records |-> 0]
  /\ exports = {}

At(p, label) == writer[p].pc = label

Elements(s) == {s[i] : i \in 1..Len(s)}

\* The records a process has taken in and not answered.
Held(w) == Elements(w.batch) \cup (Elements(w.queue) \ {Tick})

\* Answer every caller of a set of records that still waits for one.
Answer(rs, outcome) ==
  req' = [r \in Records |->
            IF r \in rs /\ req[r] = "waiting" THEN outcome ELSE req[r]]

-----------------------------------------------------------------------------
(* Opening: take the lock, then read back what the file holds.              *)

\* Mutant: the lock is not exclusive.
LockShared(p) ==
  /\ At(p, "down")
  /\ holder' = p
  /\ writer' = [writer EXCEPT ![p].pc = "locked"]
  /\ UNCHANGED <<file, torn, synced, req, ackSeq, exports>>

\* try_lock: a second process fails to start while the lock is held.
Lock(p) ==
  /\ At(p, "down")
  /\ holder = NoProc
  /\ holder' = p
  /\ writer' = [writer EXCEPT ![p].pc = "locked"]
  /\ UNCHANGED <<file, torn, synced, req, ackSeq, exports>>

\* Every complete line must carry the next sequence number, and the number
\* after the last one must still fit.
Recoverable(f) ==
  /\ \A i \in 1..Len(f) : f[i].seq = i
  /\ Len(f) < SeqMax

Checkpoints(f) == {i \in 1..Len(f) : f[i].id = Seal}

LastCheckpoint(f) ==
  IF Checkpoints(f) = {} THEN 0
  ELSE CHOOSE i \in Checkpoints(f) : \A j \in Checkpoints(f) : j <= i

\* Mutant: the chain starts anew with each process.
RecoveredFreshChain(f) ==
  [Down EXCEPT !.pc = "recv", !.open = TRUE, !.lastSeq = Len(f),
               !.lastCp = LastCheckpoint(f), !.since = Len(f) - LastCheckpoint(f)]

\* The state recover() rebuilds from the lines on disk.
Recovered(f) ==
  [Down EXCEPT !.pc = "recv", !.open = TRUE, !.lastSeq = Len(f),
               !.chain = ChainOf(f), !.lastCp = LastCheckpoint(f),
               !.since = Len(f) - LastCheckpoint(f)]

\* Mutants: the torn tail is left in place; a trailing checkpoint is taken back to
\* be written anew.
RecoverLeavesTorn(p) ==
  /\ At(p, "locked")
  /\ Recoverable(file)
  /\ writer' = [writer EXCEPT ![p] = Recovered(file)]
  /\ UNCHANGED <<file, torn, synced, holder, req, ackSeq, exports>>

RecoverDropsSeal(p) ==
  /\ At(p, "locked")
  /\ Recoverable(file)
  /\ file' = IF Len(file) \in Checkpoints(file) THEN SubSeq(file, 1, Len(file) - 1) ELSE file
  /\ torn' = FALSE
  /\ synced' = IF synced > Len(file') THEN Len(file') ELSE synced
  /\ writer' = [writer EXCEPT ![p] = Recovered(file')]
  /\ UNCHANGED <<holder, req, ackSeq, exports>>

\* The torn tail is cut off and the cut synced; then the writer starts.
Recover(p) ==
  /\ At(p, "locked")
  /\ Recoverable(file)
  /\ torn' = FALSE
  /\ synced' = IF torn THEN Len(file) ELSE synced
  /\ writer' = [writer EXCEPT ![p] = Recovered(file)]
  /\ UNCHANGED <<file, holder, req, ackSeq, exports>>

\* A journal that cannot be accounted for is refused; the process exits.
RecoverRefuses(p) ==
  /\ At(p, "locked")
  /\ ~Recoverable(file)
  /\ holder' = NoProc
  /\ writer' = [writer EXCEPT ![p] = Down]
  /\ UNCHANGED <<file, torn, synced, req, ackSeq, exports>>

-----------------------------------------------------------------------------
(* The request path and the ticker: the sending half of the channel.        *)

\* enqueue: the send completes once the channel has room.
Enqueue(p, r) ==
  /\ writer[p].open
  /\ req[r] = "idle"
  /\ Len(writer[p].queue) < QueueDepth
  /\ writer' = [writer EXCEPT ![p].queue = Append(@, r)]
  /\ req' = [req EXCEPT ![r] = "waiting"]
  /\ UNCHANGED <<file, torn, synced, holder, ackSeq, exports>>

\* The caller stops waiting (its bounded wait expired, or it was dropped);
\* the record stays in the queue and is still written.
Abandon(r) ==
  /\ req[r] = "waiting"
  /\ req' = [req EXCEPT ![r] = "abandoned"]
  /\ UNCHANGED <<file, torn, synced, holder, writer, ackSeq, exports>>

\* The ticker thread posts a tick into the writer's own queue.
PostTick(p) ==
  /\ writer[p].open
  /\ Len(writer[p].queue) < QueueDepth
  /\ writer' = [writer EXCEPT ![p].queue = Append(@, Tick)]
  /\ UNCHANGED <<file, torn, synced, holder, req, ackSeq, exports>>

\* Drop for JournalAuditSink: callers borrow the sink, so nobody waits.
Close(p) ==
  /\ writer[p].open
  /\ \A r \in Held(writer[p]) : req[r] # "waiting"
  /\ writer' = [writer EXCEPT ![p].open = FALSE]
  /\ UNCHANGED <<file, torn, synced, holder, req, ackSeq, exports>>

-----------------------------------------------------------------------------
(* The writer thread.                                                       *)

\* fail_batch: poison the journal and refuse the records of the batch.
FailBatch(p) ==
  /\ writer' = [writer EXCEPT ![p].pc = "recv", ![p].poisoned = TRUE,
                              ![p].batch = <<>>]
  /\ Answer(Elements(writer[p].batch), "failed")

\* blocking_recv returns a record: the first of a batch.
ReceiveRecord(p) ==
  /\ At(p, "recv")
  /\ writer[p].queue # <<>>
  /\ Head(writer[p].queue) # Tick
  /\ writer' = [writer EXCEPT ![p].pc = "drain",
                              ![p].batch = <<Head(writer[p].queue)>>,
                              ![p].queue = Tail(@)]
  /\ UNCHANGED <<file, torn, synced, holder, req, ackSeq, exports>>

\* blocking_recv returns a tick.  Whether every_seconds have passed since the
\* last checkpoint is left open.
ReceiveTick(p) ==
  /\ At(p, "recv")
  /\ writer[p].queue # <<>>
  /\ Head(writer[p].queue) = Tick
  /\ \E elapsed \in BOOLEAN :
       writer' = [writer EXCEPT
         ![p].queue = Tail(@),
         ![p].pc = IF ~writer[p].poisoned /\ writer[p].since > 0 /\ elapsed
                   THEN "checkpoint" ELSE "recv"]
  /\ UNCHANGED <<file, torn, synced, holder, req, ackSeq, exports>>

\* try_recv: one more record joins the batch, or a tick is swallowed.
Drain(p) ==
  /\ At(p, "drain")
  /\ Len(writer[p].batch) < MaxBatch
  /\ writer[p].queue # <<>>
  /\ writer' = [writer EXCEPT
       ![p].batch = IF Head(writer[p].queue) = Tick THEN @
                    ELSE Append(@, Head(writer[p].queue)),
       ![p].queue = Tail(@)]
  /\ UNCHANGED <<file, torn, synced, holder, req, ackSeq, exports>>

\* The drain loop has ended.
Drained(p) ==
  /\ At(p, "drain")
  /\ \/ Len(writer[p].batch) = MaxBatch
     \/ writer[p].queue = <<>>

\* Mutant: the batch of a poisoned journal is left unanswered.
RefuseSilently(p) ==
  /\ Drained(p)
  /\ writer[p].poisoned
  /\ writer' = [writer EXCEPT ![p].pc = "recv", ![p].batch = <<>>]
  /\ UNCHANGED <<file, torn, synced, holder, req, ackSeq, exports>>

\* A poisoned journal refuses the batch unwritten.
RefusePoisoned(p) ==
  /\ Drained(p)
  /\ writer[p].poisoned
  /\ writer' = [writer EXCEPT ![p].pc = "recv", ![p].batch = <<>>]
  /\ Answer(Elements(writer[p].batch), "failed")
  /\ UNCHANGED <<file, torn, synced, holder, ackSeq, exports>>

\* The batch's last number, or the one after it, does not fit a u64.
Exhausted(w) == w.lastSeq + Len(w.batch) >= SeqMax

RefuseExhausted(p) ==
  /\ Drained(p)
  /\ ~writer[p].poisoned
  /\ Exhausted(writer[p])
  /\ FailBatch(p)
  /\ UNCHANGED <<file, torn, synced, holder, ackSeq, exports>>

\* write_all completes: the lines are in the page cache.
WriteBatch(p) ==
  /\ Drained(p)
  /\ ~writer[p].poisoned
  /\ ~Exhausted(writer[p])
  /\ file' = Appended(file, torn, BatchLines(writer[p]))
  /\ torn' = FALSE
  /\ writer' = [writer EXCEPT ![p].pc = "sync"]
  /\ UNCHANGED <<synced, holder, req, ackSeq, exports>>

\* A write that stops part way: k whole lines and, perhaps, part of the next.
PartialWrite(lines, k, t) ==
  /\ file' = Appended(file, torn, SubSeq(lines, 1, k))
  /\ torn' = (t \/ (torn /\ k = 0))

\* write_all fails after k lines of the batch.
WriteFails(p) ==
  /\ Drained(p)
  /\ ~writer[p].poisoned
  /\ ~Exhausted(writer[p])
  /\ \E k \in 0..Len(writer[p].batch) - 1, t \in BOOLEAN :
       PartialWrite(BatchLines(writer[p]), k, t)
  /\ FailBatch(p)
  /\ UNCHANGED <<synced, holder, ackSeq, exports>>

\* After the sync: extend the chain, acknowledge the batch in order, and
\* checkpoint when enough records have gathered.
Acknowledge(p) ==
  LET w == writer[p]
      n == Len(w.batch)
      acked == {i \in 1..n : req[w.batch[i]] = "waiting"}
  IN /\ Answer(Elements(w.batch), "ok")
     /\ ackSeq' = [r \in Records |->
          IF \E i \in acked : w.batch[i] = r
          THEN w.lastSeq + CHOOSE i \in acked : w.batch[i] = r
          ELSE ackSeq[r]]
     /\ writer' = [writer EXCEPT
          ![p].batch = <<>>,
          ![p].chain = @ \o ChainOf(BatchLines(w)),
          ![p].lastSeq = @ + n,
          ![p].since = @ + n,
          ![p].pc = IF w.since + n >= EveryRecords THEN "checkpoint" ELSE "recv"]

\* sync_data returns.
SyncBatch(p) ==
  /\ At(p, "sync")
  /\ synced' = Len(file)
  /\ Acknowledge(p)
  /\ UNCHANGED <<file, torn, holder, exports>>

\* Mutants: the error of sync_data is ignored; the batch is written again.
SyncErrorIgnored(p) ==
  /\ At(p, "sync")
  /\ Acknowledge(p)
  /\ UNCHANGED <<file, torn, synced, holder, exports>>

SyncRetries(p) ==
  /\ At(p, "sync")
  /\ writer' = [writer EXCEPT ![p].pc = "drain"]
  /\ UNCHANGED <<file, torn, synced, holder, req, ackSeq, exports>>

\* sync_data fails: what reached the disk is unknown.
SyncFails(p) ==
  /\ At(p, "sync")
  /\ FailBatch(p)
  /\ UNCHANGED <<file, torn, synced, holder, ackSeq, exports>>

-----------------------------------------------------------------------------
(* WriterState::checkpoint: a line of its own, written, synced, exported.   *)

\* The final checkpoint's error is only logged; any other one poisons.
CheckpointFailed(p) ==
  IF writer[p].sealing
  THEN /\ writer' = [writer EXCEPT ![p].pc = "unlock"]
       /\ UNCHANGED req
  ELSE FailBatch(p)

\* The writer never gets here with its numbers used up (NumbersFit), so the
\* checked_add of the checkpoint's own number has no failing branch.
\* Mutant, ahead of what it changes: the copy is exported before the sync.
WriteAndExport(p) ==
  /\ At(p, "checkpoint")
  /\ file' = Appended(file, torn, <<CheckpointLine(writer[p])>>)
  /\ torn' = FALSE
  /\ exports' = exports \cup {CheckpointLine(writer[p])}
  /\ writer' = [writer EXCEPT ![p].pc = "cpsync"]
  /\ UNCHANGED <<synced, holder, req, ackSeq>>

WriteCheckpoint(p) ==
  /\ At(p, "checkpoint")
  /\ file' = Appended(file, torn, <<CheckpointLine(writer[p])>>)
  /\ torn' = FALSE
  /\ writer' = [writer EXCEPT ![p].pc = "cpsync"]
  /\ UNCHANGED <<synced, holder, req, ackSeq, exports>>

WriteCheckpointFails(p) ==
  /\ At(p, "checkpoint")
  /\ \E t \in BOOLEAN : PartialWrite(<<CheckpointLine(writer[p])>>, 0, t)
  /\ CheckpointFailed(p)
  /\ UNCHANGED <<synced, holder, ackSeq, exports>>

SyncCheckpoint(p) ==
  LET w == writer[p] IN
  /\ At(p, "cpsync")
  /\ synced' = Len(file)
  /\ writer' = [writer EXCEPT
       ![p].pc = "export",
       ![p].chain = Append(@, Digest(CheckpointLine(w))),
       ![p].lastSeq = @ + 1,
       ![p].lastCp = w.lastSeq + 1,
       ![p].since = 0]
  /\ UNCHANGED <<file, torn, holder, req, ackSeq, exports>>

SyncCheckpointFails(p) ==
  /\ At(p, "cpsync")
  /\ CheckpointFailed(p)
  /\ UNCHANGED <<file, torn, synced, holder, ackSeq, exports>>

\* CheckpointSink::export lands a copy whole, or fails, which is only logged.
Export(p) ==
  /\ At(p, "export")
  /\ \/ exports' = exports \cup {file[writer[p].lastCp]}
     \/ UNCHANGED exports
  /\ writer' = [writer EXCEPT
       ![p].pc = IF writer[p].sealing THEN "unlock" ELSE "recv"]
  /\ UNCHANGED <<file, torn, synced, holder, req, ackSeq>>

-----------------------------------------------------------------------------
(* The end of the channel: seal the tail, release the lock.                 *)

\* Mutant: the ticker's own sender keeps the channel open for good.
ChannelStaysOpen(p) ==
  /\ At(p, "recv")
  /\ writer[p].queue = <<>>
  /\ writer[p].open /\ ~writer[p].open

EndOfChannel(p) ==
  /\ At(p, "recv")
  /\ ~writer[p].open
  /\ writer[p].queue = <<>>

SealTail(p) ==
  /\ EndOfChannel(p)
  /\ writer' = [writer EXCEPT
       ![p].sealing = TRUE,
       ![p].pc = IF ~writer[p].poisoned /\ writer[p].since > 0
                 THEN "checkpoint" ELSE "unlock"]
  /\ UNCHANGED <<file, torn, synced, holder, req, ackSeq, exports>>

Unlock(p) ==
  /\ At(p, "unlock")
  /\ holder' = NoProc
  /\ writer' = [writer EXCEPT ![p] = Down]
  /\ UNCHANGED <<file, torn, synced, req, ackSeq, exports>>

-----------------------------------------------------------------------------
(* Faults.  The process dies with its queue and its callers; the operating  *)
(* system releases its lock.                                                *)

Kill(p) ==
  /\ ~At(p, "down")
  /\ holder' = NoProc
  /\ writer' = [writer EXCEPT ![p] = Down]
  /\ Answer(Held(writer[p]), "lost")
  /\ UNCHANGED <<synced, ackSeq, exports>>

\* Killed between two steps: everything written so far stays.
Crash(p) ==
  /\ Kill(p)
  /\ UNCHANGED <<file, torn>>

\* What a write in progress may leave behind when the process dies in it.
InFlight(p) ==
  IF At(p, "checkpoint") THEN <<CheckpointLine(writer[p])>>
  ELSE IF Drained(p) /\ ~writer[p].poisoned /\ ~Exhausted(writer[p])
       THEN BatchLines(writer[p])
       ELSE <<>>

CrashInWrite(p) ==
  /\ InFlight(p) # <<>>
  /\ \E k \in 0..Len(InFlight(p)) - 1, t \in BOOLEAN :
       PartialWrite(InFlight(p), k, t)
  /\ Kill(p)

\* The host loses power: every process dies and a suffix of the unsynced
\* lines is gone; the first lost line may survive in part.
PowerLoss ==
  /\ \E n \in synced..Len(file), t \in BOOLEAN :
       /\ t => (n < Len(file) \/ torn)
       /\ file' = SubSeq(file, 1, n)
       /\ torn' = t
  /\ holder' = NoProc
  /\ writer' = [p \in Procs |-> Down]
  /\ req' = [r \in Records |-> IF req[r] = "waiting" THEN "lost" ELSE req[r]]
  /\ UNCHANGED <<synced, ackSeq, exports>>

-----------------------------------------------------------------------------
Write(p) == RefusePoisoned(p) \/ RefuseExhausted(p) \/ WriteBatch(p) \/ WriteFails(p)

Sync(p) == SyncBatch(p) \/ SyncFails(p)

Checkpoint(p) ==
  \/ WriteCheckpoint(p) \/ WriteCheckpointFails(p)
  \/ SyncCheckpoint(p) \/ SyncCheckpointFails(p) \/ Export(p)

WriterLoop(p) ==
  \/ ReceiveRecord(p) \/ ReceiveTick(p) \/ Drain(p)
  \/ Write(p) \/ Sync(p) \/ Checkpoint(p) \/ SealTail(p) \/ Unlock(p)

Open(p) == Lock(p) \/ Recover(p) \/ RecoverRefuses(p)

Next ==
  \/ \E p \in Procs :
       \/ Open(p) \/ PostTick(p) \/ Close(p) \/ WriterLoop(p)
       \/ Crash(p) \/ CrashInWrite(p)
       \/ \E r \in Records : Enqueue(p, r)
  \/ \E r \in Records : Abandon(r)
  \/ PowerLoss

Spec == Init /\ [][Next]_vars

\* The writer is an operating-system thread: it keeps running, and its disk
\* operations return, with success or with an error.  The ticker sleeps for
\* seconds between ticks, so it does not feed the drain loop ticks forever,
\* and a drain loop that can end does end.
TickerSleeps(p) == []<>~(At(p, "drain") /\ Tick \in Elements(writer[p].queue))

FairSpec ==
  /\ Spec
  /\ \A p \in Procs :
       WF_vars(WriterLoop(p)) /\ SF_vars(Write(p)) /\ TickerSleeps(p)

-----------------------------------------------------------------------------
(* What the journal promises.                                               *)

Contents == Records \cup {Seal, Torn}
Lines == [seq : Nat, id : Contents, from : Nat, prev : Nat,
          chain : Seq(Nat \X Contents)]
Labels == {"down", "locked", "recv", "drain", "sync",
           "checkpoint", "cpsync", "export", "unlock"}
Outcomes == {"idle", "waiting", "abandoned", "ok", "failed", "lost"}
Writers == [pc : Labels, open : BOOLEAN, sealing : BOOLEAN,
            poisoned : BOOLEAN, queue : Seq(Records \cup {Tick}),
            batch : Seq(Records), lastSeq : Nat,
            chain : Seq(Nat \X Contents), lastCp : Nat, since : Nat]

(* Types: the state of the file, of every process and of every caller.      *)
TypeOK ==
  /\ file \in Seq(Lines)
  /\ torn \in BOOLEAN
  /\ synced \in 0..Len(file)
  /\ holder \in Procs \cup {NoProc}
  /\ writer \in [Procs -> Writers]
  /\ req \in [Records -> Outcomes]
  /\ ackSeq \in [Records -> Nat]
  /\ exports \in SUBSET Lines

(* Line order is sequence order: whatever crashes, torn writes, failed      *)
(* syncs and restarts happened, the file numbers its lines 1, 2, 3, ...     *)
(* with no gap, no duplicate and no line glued to a torn one, and no number *)
(* passes u64::MAX.  recover() refuses anything else, so this is also why   *)
(* the journal reopens, until its numbers are used up.                      *)
Contiguous ==
  /\ \A i \in 1..Len(file) : file[i].seq = i
  /\ Len(file) <= SeqMax

(* RPO = 0: a record whose caller was told "ok" is on stable storage, under *)
(* the number the caller was given, from the acknowledgement on and across  *)
(* every later crash, power loss and recovery.                              *)
AckedDurable ==
  \A r \in Records : req[r] = "ok" =>
    /\ ackSeq[r] \in 1..synced
    /\ file[ackSeq[r]].id = r

(* No record is written twice, retried or replayed, even across restarts.   *)
WrittenOnce ==
  \A i, j \in 1..Len(file) :
    file[i].id \in Records /\ file[i].id = file[j].id => i = j

(* Every checkpoint copied to the sink is in the durable part of the file,  *)
(* unchanged: no crash makes the journal look truncated to an auditor.      *)
ExportsBacked ==
  \A e \in exports : e.seq \in 1..synced /\ file[e.seq] = e

\* A clean close leaves nothing unsealed: an unpoisoned writer that goes on
\* to release the lock, and whose final checkpoint did not fail, leaves a
\* checkpoint as the last line, also over lines a predecessor left behind.
CleanCloseSeals ==
  [][ \A p \in Procs :
        /\ At(p, "unlock")'
        /\ writer[p].pc \in {"recv", "export"}
        /\ ~writer[p].poisoned
        => file = <<>> \/ file[Len(file)].id = Seal ]_vars

\* The writer never needs a number past u64::MAX for a checkpoint.
NumbersFit ==
  \A p \in Procs : At(p, "checkpoint") => writer[p].lastSeq < SeqMax

\* One writer: two processes are never past the lock together.
OneWriter ==
  \A p, q \in Procs : ~At(p, "down") /\ ~At(q, "down") => p = q

(* A durable line is never changed or removed by any step.                  *)
DurableKept ==
  [][ /\ synced <= synced'
      /\ \A i \in 1..synced : file'[i] = file[i] ]_vars

(* Every caller is answered: the record is acknowledged or refused, or the  *)
(* caller gave up or died with the process.                                 *)
EveryCallerAnswered ==
  \A r \in Records : req[r] = "waiting" ~> req[r] # "waiting"

\* A closed journal lets go of the lock, however much was still queued.
CloseReleasesLock ==
  \A p \in Procs :
    ~At(p, "down") /\ ~At(p, "locked") /\ ~writer[p].open ~> holder # p

(* Closing is complete: it ends, although the ticker keeps posting into the *)
(* queue it drains, and a clean one leaves no line without a checkpoint.    *)
CloseComplete == CloseReleasesLock /\ CleanCloseSeals

=============================================================================
